---- MODULE Spec2Model ----
(***************************************************************************)
(* The checkout / revise / replay / commit engine of field-kit's           *)
(* useEntities (src/unnamed/part_000), as a state machine.                 *)
(*                                                                         *)
(* A revision is one call of checkout (or add): it owns a live state, a    *)
(* transaction log, a promise queue and a dependency map.  Asynchronous    *)
(* work (cache reads and writes, remote syncs, dependent commits) is one   *)
(* action per promise callback; the callbacks of one .then chain that run  *)
(* in consecutive microtasks are one action.                               *)
(***************************************************************************)
EXTENDS Integers, Sequences, FiniteSets, TLC

\* ------------------------------------------------------------- bounds
MaxRev == 3        \* revision slots (calls of checkout / add)
MaxCheckout == 1   \* calls of checkout by the caller (Spec)
MaxRevise == 3     \* calls of revise by the caller (Spec)
MaxCommit == 2     \* calls of commit by the caller (Spec)
MaxVal == 2        \* values of the attribute `name` are 0..MaxVal
TwoCheckouts == 2  \* calls of checkout by the caller (SpecTwo)
TwoRevises == 1    \* calls of revise by the caller (SpecTwo)
TwoCommits == 1    \* calls of commit by the caller (SpecTwo)
DepRevises == 1    \* calls of revise by the caller (SpecDep)
DepCommits == 2    \* calls of commit by the caller (SpecDep)
LinkCheckouts == 1 \* calls of checkout by the caller (SpecLink)
LinkRevises == 2   \* calls of revise, the link's own included (SpecLink)
DropRevises == 1   \* calls of revise by the caller (SpecDrop)
LiveCheckouts == 1 \* calls of checkout by the caller (SpecLive)
LiveRevises == 1   \* calls of revise by the caller (SpecLive)
LiveCommits == 1   \* calls of commit by the caller (SpecLive)
OneRevises == 3    \* calls of revise by the caller (SpecOne)
ArrCheckouts == 2  \* calls of checkout by the caller (SpecArr)
ArrRevises == 1    \* calls of revise by the caller (SpecArr)
ArrCommits == 1    \* calls of commit by the caller (SpecArr)
MaxTx == 3         \* transactions handed to replay (SpecReplay)
MaxStr == 7        \* characters of the string handed to the picker (SpecHash)
MaxPicks == 2      \* calls of one picker with one string (SpecHash)
LateCheckouts == 1 \* calls of checkout by the caller (SpecLate)
LateRevises == 1   \* calls of revise by the caller (SpecLate)
MaxLogs == 2       \* logs in the local store at first, and in one answer (SpecLogs)
MaxGets == 2       \* calls of getServerLogs (SpecLogs)

Revs == 1..MaxRev
NameVals == 0..MaxVal

\* ------------------------------------------------------------- values
\* `undefined`: what a sync without data, or a failed task, leaves behind.
NoRec == [undefined |-> TRUE]

\* A relationship value: one resource identifier (many = FALSE) or a list.
\* An identifier is [id, meta]; meta = 0 is "no revision metadata".
RelVal(many, ids) == [many |-> many, ids |-> ids]
EmptyRel == RelVal(TRUE, <<>>)
Ident(id, meta) == [id |-> id, meta |-> meta]

\* An entity as the domain schema holds it: fields nested under attributes
\* and relationships; rid stands for meta.remote.meta.attributes'
\* drupal_internal__id / drupal_internal__revision_id (0: absent).
Entity(id, name, rel, rid) ==
  [id |-> id, attributes |-> [name |-> name],
   relationships |-> [rel |-> rel], rid |-> rid]

\* farm[shortName].create({ id, type }): the schema's default fields.
FarmCreate(id) == Entity(id, 0, EmptyRel, 0)

\* A field map restricted to / built from single fields.
OneField(k, v) == (k :> v)
EmptyFields == [k \in {} |-> 0]

\* flattenEntity: attributes and relationships lifted to the top level.
\* undefined flattens to no fields.
FlattenEntity(e) ==
  IF e = NoRec THEN EmptyFields
  ELSE IF "attributes" \in DOMAIN e
       THEN [name |-> e.attributes.name, rel |-> e.relationships.rel]
       ELSE e

\* emit(state, data): every attribute, relationship and other top-level
\* field of data except id, type and meta is assigned into the state.
EmitFields(data) ==
  IF data = NoRec THEN EmptyFields
  ELSE IF "attributes" \in DOMAIN data
       THEN [name |-> data.attributes.name, rel |-> data.relationships.rel]
       ELSE data

Emit(st, data) ==
  LET f == EmitFields(data)
  IN [k \in DOMAIN st \cup DOMAIN f |-> IF k \in DOMAIN f THEN f[k] ELSE st[k]]

\* farm[shortName].update(previous, fields): fields merged into the entity.
FarmUpdate(previous, fields) ==
  [previous EXCEPT
     !.attributes.name = IF "name" \in DOMAIN fields THEN fields.name ELSE @,
     !.relationships.rel = IF "rel" \in DOMAIN fields THEN fields.rel ELSE @]

\* ------------------------------------------------------------- replay
\* A transaction is the function revise stored; revise(reference, object)
\* stores the constant function returning that object.  id is the order of
\* the revise call (a history tag, not program state).
Tx(id, fields) == [id |-> id, fields |-> fields]

\* revise(reference, fn) stores fn itself.  The one function modelled is
\* current => ({ name: ((current.name || 0) + 1) % (MaxVal + 1) }).
TxFn(id) == [id |-> id, fn |-> "increment"]
Increment(current) ==
  OneField("name", ((IF "name" \in DOMAIN current THEN current.name ELSE 0) + 1)
                     % (MaxVal + 1))

\* tx(current)
TxApply(tx, current) ==
  IF "fields" \in DOMAIN tx THEN tx.fields ELSE Increment(current)

\* transactions.forEach: each transaction is evaluated against the working
\* snapshot; a field whose proposed value differs from the snapshot's is
\* written into it and recorded in fieldSet.
RECURSIVE ReplayLoop(_, _, _)
ReplayLoop(current, fieldSet, txs) ==
  IF txs = <<>> THEN [current |-> current, fieldSet |-> fieldSet]
  ELSE LET txFields == TxApply(Head(txs), current)
           changed == {k \in DOMAIN txFields :
                         k \notin DOMAIN current \/ current[k] # txFields[k]}
           cur2 == [k \in DOMAIN current \cup changed |->
                      IF k \in changed THEN txFields[k] ELSE current[k]]
       IN ReplayLoop(cur2, fieldSet \cup changed, Tail(txs))

\* previous[field]: a property read on the baseline object itself, which is
\* undefined for a field the baseline holds under attributes/relationships.
HasTop(previous, field) == previous # NoRec /\ field \in DOMAIN previous

\* replay throws (a property read on undefined) when the baseline is
\* undefined and some transaction touched a field.
ReplayThrows(previous, txs) ==
  previous = NoRec /\ ReplayLoop(FlattenEntity(previous), {}, txs).fieldSet # {}

\* A replay that returns the whole working snapshot.
ReplayWholeSnapshot(previous, txs) ==
  ReplayLoop(FlattenEntity(previous), {}, txs).current

Replay(previous, txs) ==
  LET r == ReplayLoop(FlattenEntity(previous), {}, txs)
      kept == {k \in r.fieldSet :
                 ~HasTop(previous, k) \/ r.current[k] # previous[k]}
  IN [k \in kept |-> r.current[k]]

\* -------------------------------------------------------------- state
VARIABLES
  revId,         \* revision -> id of its entity (0: slot not yet used)
  state,         \* revision -> live field map (the reactive state)
  transactions,  \* revision -> revision.transactions, the current log
  tasks,         \* revision -> every task pushed on its queue, in order
  prev,          \* revision -> result of the queue's last settled task
  listeners,     \* revision -> the handler registered for 'sync'
  deps,          \* revision -> revision.dependencies
  cache,         \* entity id -> record in the local cache
  remote,        \* entity id -> record in the remote store
  backup,        \* entity id -> transactions recorded in the backup store
  hist,          \* revision -> restored log, then every revise (history)
  calls,         \* calls made so far, ids handed out, calls the caller makes
  linked,        \* the link set on a relationship and its collection
  replayed,      \* one call of replay: its arguments and what it returned
  picked,        \* one hashPicker: its array, the string, what it returned
  logStore       \* httpModule: the local log store and the last server answer

vars == <<revId, state, transactions, tasks, prev, listeners, deps,
          cache, remote, backup, hist, calls, linked, replayed, picked, logStore>>

\* Entity ids: 1 is an entity that exists remotely; uuidv4() hands out more.
MaxId == MaxRev + 1
Ids == 1..MaxId
validate(id) == id \in Ids

\* One task of a PromiseQueue.  txs: the transaction array the task's
\* closure holds; fields, next, final: the locals of commit's task; waits:
\* the dependent commits it awaits, each by revision and place in that
\* revision's queue; val: the value the task's promise resolved to; why:
\* what made it reject; heard: how often its sync answer called the sync
\* listener; repeat: whether its syncHandler subscribed to the retry
\* scheduler ("subscribed") and whether the late result came ("delivered").
Task(kind, txs, isMap) ==
  [kind |-> kind, pc |-> "queued", txs |-> txs, isMap |-> isMap,
   fields |-> EmptyFields, next |-> NoRec, final |-> NoRec,
   waits |-> <<>>, cached |-> FALSE, val |-> NoRec, why |-> "",
   heard |-> 0, repeat |-> "no"]

Settled(t) == t.pc \in {"done", "failed"}
Running(t) == t.pc \notin {"queued", "done", "failed"}
Used(r) == revId[r] # 0
FreeRevs == {r \in Revs : ~Used(r)}
NewRev == CHOOSE r \in FreeRevs : \A q \in FreeRevs : r <= q

DefaultState == [name |-> 0, rel |-> EmptyRel]
NoDeps == [isMap |-> FALSE, edges |-> <<>>]

\* A task that ended: done with its value, or failed.  The queue hands the
\* value on to the next task; a rejected task hands on undefined.
Finish(t, value) == [t EXCEPT !.pc = "done", !.val = value]
Fail(t, why) == [t EXCEPT !.pc = "failed", !.why = why]

\* Replace element i of revision r's task list.
SetTask(tks, r, i, t) == [tks EXCEPT ![r][i] = t]

\* ------------------------------------------------------- createEntity
\* restoreTransactions(entity, type, _id, route): the transactions the
\* backup store holds for this entity become the revision's log.
RestoreTransactions(id) == backup[id]

\* checkout's queue.push(() => { ... }): the load task.  Its closure holds
\* the transactions array the revision had when checkout ran.
LoadTask(txs) == Task("load", txs, FALSE)

\* A checkout that pushes its load task whatever the id.
EarlyReturnNever(idArg) == FALSE

\* if (!validate(id)) return reference: a brand-new entity, nothing loaded.
EarlyReturn(idArg) == ~validate(idArg)

\* checkout(entity, type, id) with a scalar type and id.  idArg = 0 is an
\* absent id: createEntity draws a uuid and checkout returns early.
\* queue.push(() => init) is the queue's first result.
Checkout(idArg) ==
  /\ calls.checkout < calls.maxCheckout
  /\ FreeRevs # {}
  /\ idArg = 0 => calls.uuid + 2 <= MaxId
  /\ LET r == NewRev
         id == IF validate(idArg) THEN idArg ELSE calls.uuid + 2
         restored == RestoreTransactions(id)
     IN /\ revId' = [revId EXCEPT ![r] = id]
        /\ state' = [state EXCEPT ![r] = DefaultState]
        /\ transactions' = [transactions EXCEPT ![r] = restored]
        /\ hist' = [hist EXCEPT ![r] = restored]
        /\ prev' = [prev EXCEPT ![r] = FarmCreate(id)]
        /\ tasks' = [tasks EXCEPT ![r] =
                       IF EarlyReturn(idArg) THEN <<>> ELSE <<LoadTask(restored)>>]
        /\ calls' = [calls EXCEPT !.checkout = @ + 1,
                                  !.uuid = IF validate(idArg) THEN @ ELSE @ + 1]
  /\ UNCHANGED <<logStore, replayed, picked, linked, listeners, deps, cache, remote, backup>>

\* on(reference, 'sync', handler): h is a handler that returns ("ok") or one
\* that throws ("throws").  Handlers of 'load' are only ever called through
\* safeCall and change nothing, so they are not kept.
On(r, h) ==
  /\ Used(r)
  /\ listeners[r] = "none"
  /\ listeners' = [listeners EXCEPT ![r] = h]
  /\ UNCHANGED <<logStore, replayed, picked, linked, revId, state, transactions, tasks, prev, deps, cache,
                 remote, backup, hist, calls>>

\* add's queue.push((prev) => { ... }): the task that merges the fields the
\* entity was added with.
AddTask(fields) == [Task("add", <<>>, FALSE) EXCEPT !.fields = fields]

\* next = farm.update(prev, fields); emit(itemState, next); return next.
AddBody(t, previous, st) ==
  IF previous = NoRec THEN [task |-> Fail(t, "update"), state |-> st]
  ELSE LET next == FarmUpdate(previous, t.fields)
       IN [task |-> Finish([t EXCEPT !.next = next], next),
           state |-> Emit(st, next)]

\* ------------------------------------------------------------- revise
\* The array object checkout's load closure holds is revision.transactions
\* until the first commit replaces that property by a new array; until
\* then a push by revise is seen by the load task too.
SharesLoadArray(q, i) ==
  /\ q[i].kind = "load"
  /\ ~Settled(q[i])
  /\ \A j \in 1..Len(q) : q[j].kind # "commit"

\* revise's transactions.push(tx), on the task list's side.
PushShared(q, tx) ==
  [i \in 1..Len(q) |->
     IF SharesLoadArray(q, i) THEN [q[i] EXCEPT !.txs = Append(@, tx)] ELSE q[i]]

\* backupTransactions(backupURI, fields): the delta is recorded.
BackupTransactions(b, tx) == Append(b, tx)

\* revise(reference, fields): push the transaction, back it up, emit it.
\* w holds the values revise reads and writes.
ReviseIn(w, r, fields) ==
  LET tx == Tx(w.calls.revise + 1, fields)
  IN [transactions |-> [w.transactions EXCEPT ![r] = Append(@, tx)],
      tasks |-> [w.tasks EXCEPT ![r] = PushShared(@, tx)],
      backup |-> [w.backup EXCEPT ![w.revId[r]] = BackupTransactions(@, tx)],
      state |-> [w.state EXCEPT ![r] = Emit(@, fields)],
      hist |-> [w.hist EXCEPT ![r] = Append(@, tx)],
      calls |-> [w.calls EXCEPT !.revise = @ + 1],
      revId |-> w.revId]

ReviseOn(r, fields) ==
  LET w == ReviseIn([transactions |-> transactions, tasks |-> tasks,
                     backup |-> backup, state |-> state, hist |-> hist,
                     calls |-> calls, revId |-> revId], r, fields)
  IN /\ transactions' = w.transactions
     /\ tasks' = w.tasks
     /\ backup' = w.backup
     /\ state' = w.state
     /\ hist' = w.hist
     /\ calls' = w.calls

Revise(r, v) ==
  /\ Used(r)
  /\ calls.revise < calls.maxRevise
  /\ ReviseOn(r, OneField("name", v))
  /\ UNCHANGED <<logStore, replayed, picked, linked, revId, prev, listeners, deps, cache, remote>>

\* ------------------------------------------------------------- commit
\* A commit that copies the log without replacing it.
DrainedLogKept(log) == log

\* revision.transactions = []: what the log is after commit copied it.
DrainedLog(log) == <<>>

\* A commit that runs its task at once instead of pushing it on the queue.
CommitTaskUnqueued(txs, isMap) ==
  [Task("commit", txs, isMap) EXCEPT !.pc = "writing", !.next = FarmCreate(1)]

\* queue.push((previous) => { ... }): commit's task, holding the copy of
\* the log and the dependencies value read when commit was called.
CommitTask(txs, isMap) == Task("commit", txs, isMap)

\* commit(reference) for a single reference, as far as it runs at once.
CommitOn(trs, tks, r) ==
  [trs |-> [trs EXCEPT ![r] = DrainedLog(@)],
   tks |-> [tks EXCEPT ![r] = Append(@, CommitTask(trs[r], deps[r].isMap))]]

Commit(r) ==
  /\ Used(r)
  /\ calls.commit < calls.maxCommit
  /\ LET c == CommitOn(transactions, tasks, r)
     IN transactions' = c.trs /\ tasks' = c.tks
  /\ calls' = [calls EXCEPT !.commit = @ + 1]
  /\ UNCHANGED <<logStore, replayed, picked, linked, revId, state, prev, listeners, deps, cache, remote,
                 backup, hist>>

\* commit(reference) with an array: what the call was given, the commit
\* task started for each element so far, and whether the call threw.
NoBatch == [elems |-> <<>>, waits |-> <<>>, threw |-> FALSE]

\* revisions.get(reference) || revisions.get(unref(reference)): an element
\* is 0 when it is no reference (null, a linked reference without value).
HasRevision(e) == e \in Revs /\ Used(e)

\* reference.map(commit): commit is called on the elements in order, at
\* once; on an element without a revision `revision.transactions` throws
\* and the map stops there.
RECURSIVE CommitEach(_, _, _, _)
CommitEach(trs, tks, elems, waits) ==
  IF elems = <<>>
  THEN [trs |-> trs, tks |-> tks, waits |-> waits, threw |-> FALSE]
  ELSE IF ~HasRevision(Head(elems))
  THEN [trs |-> trs, tks |-> tks, waits |-> waits, threw |-> TRUE]
  ELSE LET c == CommitOn(trs, tks, Head(elems))
           w == [ref |-> Head(elems), idx |-> Len(c.tks[Head(elems)])]
       IN CommitEach(c.trs, c.tks, Tail(elems), Append(waits, w))

\* commit(reference) with an array of references: Promise.allSettled over
\* the commits the map started.
CommitAll(elems) ==
  /\ calls.commit < calls.maxCommit
  /\ \A k \in 1..Len(elems) : elems[k] # 0 => HasRevision(elems[k])
  /\ LET c == CommitEach(transactions, tasks, elems, <<>>)
     IN /\ transactions' = c.trs
        /\ tasks' = c.tks
        /\ calls' = [calls EXCEPT !.commit = @ + 1,
                                  !.batch = [elems |-> elems, waits |-> c.waits,
                                             threw |-> c.threw]]
  /\ UNCHANGED <<logStore, replayed, picked, linked, revId, state, prev, listeners, deps, cache, remote,
                 backup, hist>>

\* ------------------------------------------------------ PromiseQueue
\* A queue runs its tasks one at a time, in the order they were pushed:
\* task i may start once every task pushed before it has settled.
QueueReady(q, i) ==
  /\ q[i].pc = "queued"
  /\ \A j \in 1..(i - 1) : Settled(q[j])

\* What the next task receives as `previous` once task t has settled.
Handed(t) == IF t.pc = "done" THEN t.val ELSE NoRec

\* ---------------------------------------------- commit's task: start
\* replay(previous, transactions); emit(state, fields);
\* next = farm.update(previous, fields); cacheEntity(entity, next) issued.
\* replay throws on an undefined baseline once a transaction touched a
\* field, and farm.update cannot update an undefined entity.
CommitBody(t, previous, st) ==
  IF ReplayThrows(previous, t.txs)
  THEN [task |-> Fail(t, "replay"), state |-> st]
  ELSE LET fields == Replay(previous, t.txs)
           st2 == Emit(st, fields)
       IN IF previous = NoRec
          THEN [task |-> Fail(t, "update"), state |-> st2]
          ELSE [task |-> [t EXCEPT !.pc = "writing", !.fields = fields,
                                   !.next = FarmUpdate(previous, fields)],
                state |-> st2]

\* The queue starts its next task.  A load task issues its cache read; a
\* commit task runs up to its cache write; an add task runs to its end.
StartTask(r) ==
  /\ Used(r)
  /\ \E i \in 1..Len(tasks[r]) :
       /\ QueueReady(tasks[r], i)
       /\ LET t == tasks[r][i]
              b == IF t.kind = "add" THEN AddBody(t, prev[r], state[r])
                   ELSE CommitBody(t, prev[r], state[r])
          IN IF t.kind = "load"
             THEN /\ tasks' = SetTask(tasks, r, i, [t EXCEPT !.pc = "reading"])
                  /\ UNCHANGED <<state, prev>>
             ELSE /\ tasks' = SetTask(tasks, r, i, b.task)
                  /\ state' = [state EXCEPT ![r] = b.state]
                  /\ prev' = IF Settled(b.task)
                             THEN [prev EXCEPT ![r] = Handed(b.task)] ELSE prev
  /\ UNCHANGED <<logStore, replayed, picked, linked, revId, transactions, listeners, deps, cache, remote,
                 backup, hist, calls>>

\* ------------------------------------------------- checkout's load task
\* getRecords('entities', entity, id) answered: cached data is emitted
\* (load listeners run through safeCall), then syncEntities is issued.
CacheReadAnswer(r) ==
  /\ Used(r)
  /\ \E i \in 1..Len(tasks[r]) :
       /\ tasks[r][i].kind = "load" /\ tasks[r][i].pc = "reading"
       /\ LET data == cache[revId[r]]
          IN /\ state' = [state EXCEPT ![r] = Emit(@, data)]
             /\ tasks' = SetTask(tasks, r, i, [tasks[r][i] EXCEPT !.pc = "syncing"])
  /\ UNCHANGED <<logStore, replayed, picked, linked, revId, transactions, prev, listeners, deps, cache, remote,
                 backup, hist, calls>>

\* syncHandler(revision) on an evaluation whose first datum is value: the
\* value is emitted, the sync listeners run through safeCall, and the value
\* is written to the cache; a rejected write is only alerted.
SyncHandlerState(st, value) == Emit(st, value)
SyncHandlerCache(c, id, value, wok) ==
  IF value # NoRec /\ wok THEN [c EXCEPT ![id] = value] ELSE c

\* listeners.sync.forEach((fn) => { fn(value); }) after syncHandler: the
\* handler is called directly, so a throwing one rejects the task.
DirectListenerThrows(r, value) == value # NoRec /\ listeners[r] = "throws"

\* How often one sync answer calls the handler registered for 'sync': once
\* in syncHandler (through safeCall) and once more, directly, in the then
\* that follows it.
SafeCalls(r, value) == IF value # NoRec /\ listeners[r] # "none" THEN 1 ELSE 0
DirectCalls(r, value) == IF value # NoRec /\ listeners[r] # "none" THEN 1 ELSE 0
Heard(t, r, value) == [t EXCEPT !.heard = SafeCalls(r, value) + DirectCalls(r, value)]

\* The end of the load sequence: replay(value, transactions) against what
\* the remote returned, emit, notify, return value.
LoadEnd(t, r, st, value) ==
  IF ReplayThrows(value, t.txs)
  THEN [task |-> Fail([t EXCEPT !.txs = <<>>], "replay"), state |-> st]
  ELSE LET st2 == Emit(st, Replay(value, t.txs))
           t2 == Heard([t EXCEPT !.txs = <<>>], r, value)
       IN IF DirectListenerThrows(r, value)
          THEN [task |-> Fail(t2, "listener"), state |-> st2]
          ELSE [task |-> Finish(t2, value), state |-> st2]

\* What the remote answers: its record ("data"), its record without the
\* revision identifiers ("nometa", offered to dependents), nothing, or
\* nothing with a repeatable failure ("repeatable").

\* if (repeatable.length > 0) scheduler.push(entity, type, id) and subscribe.
Subscribe(t, out) == IF out = "repeatable" THEN [t EXCEPT !.repeat = "subscribed"] ELSE t

IsDependent(r) ==
  \E p \in Revs : \E k \in 1..Len(deps[p].edges) : deps[p].edges[k].ref = r
LoadOutcomes(r) ==
  {"nodata"} \cup (IF remote[revId[r]] # NoRec THEN {"data"} ELSE {})
             \cup (IF calls.repeatable THEN {"repeatable"} ELSE {})
SendOutcomes(r) == {"data", "nodata"} \cup (IF IsDependent(r) THEN {"nometa"} ELSE {})

LoadSyncAnswer(r) ==
  /\ Used(r)
  /\ \E i \in 1..Len(tasks[r]), out \in LoadOutcomes(r), wok \in BOOLEAN :
       /\ tasks[r][i].kind = "load" /\ tasks[r][i].pc = "syncing"
       /\ out # "data" => wok
       /\ LET value == IF out = "data" THEN remote[revId[r]] ELSE NoRec
              e == LoadEnd(tasks[r][i], r, SyncHandlerState(state[r], value), value)
          IN /\ tasks' = SetTask(tasks, r, i, Subscribe(e.task, out))
             /\ state' = [state EXCEPT ![r] = e.state]
             /\ prev' = [prev EXCEPT ![r] = Handed(e.task)]
             /\ cache' = SyncHandlerCache(cache, revId[r], value, wok)
  /\ UNCHANGED <<logStore, replayed, picked, linked, revId, transactions, listeners, deps, remote, backup,
                 hist, calls>>

\* ------------------------------------------- commit's task: cache write
\* clearBackup(backupURI): the backup record of the entity is emptied.
ClearBackup(b) == <<>>

\* The dependency edges whose relationship is among the changed fields.
Affected(edges, fields) == SelectSeq(edges, LAMBDA e : e.rel \in DOMAIN fields)

\* dependentCommits: commit(depRef) for each affected edge, in the order of
\* the dependency map; each is awaited through the task it pushed.
RECURSIVE FanOut(_, _, _, _)
FanOut(trs, tks, edges, waits) ==
  IF edges = <<>> THEN [trs |-> trs, tks |-> tks, waits |-> waits]
  ELSE LET e == Head(edges)
           c == CommitOn(trs, tks, e.ref)
           w == [ref |-> e.ref, rel |-> e.rel, idx |-> Len(c.tks[e.ref])]
       IN FanOut(c.trs, c.tks, Tail(edges), Append(waits, w))

\* The step after a resolved cache write when no dependent is to be
\* committed: finalFields is empty, final is next, syncEntities is issued.
SendNext(t) == [t EXCEPT !.pc = "sending", !.cached = TRUE, !.final = t.next]

\* cacheEntity(entity, next) inside commit's task has no catch: a rejected
\* write rejects the task.
CacheWriteRejected(t) == Fail(t, "cachewrite")

CacheWriteAnswer(r) ==
  /\ Used(r)
  /\ \E i \in 1..Len(tasks[r]), ok \in BOOLEAN :
       /\ tasks[r][i].kind = "commit" /\ tasks[r][i].pc = "writing"
       /\ LET t == tasks[r][i]
              edges == IF t.isMap THEN Affected(deps[r].edges, t.fields) ELSE <<>>
              f == FanOut(transactions, tasks, edges, <<>>)
          IN IF ~ok
             THEN /\ tasks' = SetTask(tasks, r, i, CacheWriteRejected(t))
                  /\ prev' = [prev EXCEPT ![r] = Handed(tasks'[r][i])]
                  /\ UNCHANGED <<cache, backup, transactions>>
             ELSE /\ cache' = [cache EXCEPT ![revId[r]] = t.next]
                  /\ backup' = [backup EXCEPT ![revId[r]] = ClearBackup(@)]
                  /\ transactions' = f.trs
                  /\ tasks' = SetTask(f.tks, r, i,
                       IF edges = <<>> THEN SendNext(t)
                       ELSE [t EXCEPT !.pc = "waitdeps", !.cached = TRUE,
                                      !.waits = f.waits])
                  /\ UNCHANGED prev
  /\ UNCHANGED <<logStore, replayed, picked, linked, revId, state, listeners, deps, remote, hist, calls>>

\* ---------------------------------------- commit's task: metadata splice
\* assoc('meta', meta) on one resource identifier.
AddMetaData(ident, rid) == [ident EXCEPT !.meta = rid]

\* The mapObjIndexed callback: the relationship field with the response's
\* revision identifiers added; left as it is when the response has none.
SpliceField(val, response) ==
  IF response.rid = 0 THEN val
  ELSE IF val.many
       THEN RelVal(TRUE, [k \in 1..Len(val.ids) |->
                            IF val.ids[k].id = response.id
                            THEN AddMetaData(val.ids[k], response.rid)
                            ELSE val.ids[k]])
       ELSE RelVal(FALSE, [k \in 1..Len(val.ids) |->
                             AddMetaData(val.ids[k], response.rid)])

\* Object.fromEntries over [relationship, response] pairs: the last pair of
\* a relationship is the one that stays.
LastWait(waits, rel) ==
  LET ks == {k \in 1..Len(waits) : waits[k].rel = rel}
  IN waits[CHOOSE k \in ks : \A j \in ks : j <= k]
Response(tks, w) == tks[w.ref][w.idx].val

\* Promise.all(dependentCommits) settled: rejected as soon as one dependent
\* commit rejected, resolved when all resolved.  response.meta on an
\* undefined response throws.
DepsSettled(r) ==
  /\ Used(r)
  /\ \E i \in 1..Len(tasks[r]) :
       /\ tasks[r][i].pc = "waitdeps"
       /\ LET t == tasks[r][i]
              W == {t.waits[k] : k \in 1..Len(t.waits)}
              rels == {w.rel : w \in W}
              anyFailed == \E w \in W : tasks[w.ref][w.idx].pc = "failed"
              allDone == \A w \in W : tasks[w.ref][w.idx].pc = "done"
              resp(k) == Response(tasks, LastWait(t.waits, k))
              finalFields == [k \in rels |-> SpliceField(t.fields[k], resp(k))]
          IN /\ anyFailed \/ allDone
             /\ IF anyFailed
                THEN /\ tasks' = SetTask(tasks, r, i, Fail(t, "dependent"))
                     /\ prev' = [prev EXCEPT ![r] = NoRec]
                     /\ UNCHANGED state
                ELSE IF \E k \in rels : resp(k) = NoRec
                THEN /\ tasks' = SetTask(tasks, r, i, Fail(t, "splice"))
                     /\ prev' = [prev EXCEPT ![r] = NoRec]
                     /\ UNCHANGED state
                ELSE /\ tasks' = SetTask(tasks, r, i,
                          [t EXCEPT !.pc = "sending",
                                    !.final = FarmUpdate(t.next, finalFields)])
                     /\ state' = [state EXCEPT ![r] = Emit(@, finalFields)]
                     /\ UNCHANGED prev
  /\ UNCHANGED <<logStore, replayed, picked, linked, revId, transactions, listeners, deps, cache, remote,
                 backup, hist, calls>>

\* ------------------------------------------------ commit's task: send
\* What syncEntities answers for the entity sent.
Answer(final, out) ==
  IF out = "nodata" THEN NoRec
  ELSE [final EXCEPT !.rid = IF out = "data" THEN 1 ELSE 0]

\* The end of commit's task: the sync listeners are called directly with
\* the value, and the value is returned.
CommitEnd(t, r, value) ==
  IF DirectListenerThrows(r, value) THEN Fail(Heard(t, r, value), "listener")
  ELSE Finish(Heard(t, r, value), value)

CommitSyncAnswer(r) ==
  /\ Used(r)
  /\ \E i \in 1..Len(tasks[r]), out \in SendOutcomes(r), wok \in BOOLEAN :
       /\ tasks[r][i].kind = "commit" /\ tasks[r][i].pc = "sending"
       /\ out = "nodata" => wok
       /\ LET t == tasks[r][i]
              value == Answer(t.final, out)
          IN /\ remote' = IF value # NoRec
                          THEN [remote EXCEPT ![revId[r]] = value] ELSE remote
             /\ state' = [state EXCEPT ![r] = SyncHandlerState(@, value)]
             /\ cache' = SyncHandlerCache(cache, revId[r], value, wok)
             /\ tasks' = SetTask(tasks, r, i, CommitEnd(t, r, value))
             /\ prev' = [prev EXCEPT ![r] = Handed(tasks'[r][i])]
  /\ UNCHANGED <<logStore, replayed, picked, linked, revId, transactions, listeners, deps, backup, hist, calls>>

\* ---------------------------------------------------------------- link
\* The link set by link(referent, relationship, entity) on the to-many
\* relationship `rel`: whether its watcher is set, the revision watched,
\* the collection that is the linked reference's value (its members, the
\* ids of its filter, how far its load has come), and the value the
\* watcher saw last.  incoming, synth, wrote and passes record what the
\* first run of update was given, the list it built with fresh ids, the
\* transaction it wrote that list with, and how often update has run.
\* For a relationship that holds a single identifier, sat is the revision
\* the linked reference stands for (0: null); before and oldSat record what
\* the last run of update was given as prev and found as the linked
\* reference, threw whether it ended in an exception.  arg is what link
\* was called with when that was no checked-out reference, effect whether
\* watchEffect(setLinkWatcher) is registered, error whether link threw its
\* invalid-referent error, unwatched whether the watcher was stopped, and
\* unlinked / atUnlink whether unlink was called and what the linked
\* reference stood for then.  repeat is the collection's retry
\* subscription: "subscribed" once collectionSyncHandler subscribed,
\* "delivered" once the late results came.
NoLink ==
  [set |-> FALSE, src |-> 0, coll |-> FALSE, members |-> <<>>, filter |-> {},
   pc |-> "none", seen |-> <<>>, incoming |-> <<>>, synth |-> <<>>,
   wrote |-> 0, passes |-> 0,
   sat |-> 0, before |-> <<>>, oldSat |-> 0, threw |-> FALSE,
   arg |-> "none", effect |-> FALSE, error |-> FALSE,
   unwatched |-> FALSE, unlinked |-> FALSE, atUnlink |-> <<0, <<>>>>,
   repeat |-> "no"]

NumUsed == Cardinality({r \in Revs : Used(r)})

\* diff((p, n) => p.id === n.id, prev, next): the places of next that no
\* element of prev matches, and the elements of prev that none of next
\* matches.
Matches(list, x) == \E k \in 1..Len(list) : list[k].id = x.id
Indices(prevList, next) == {j \in 1..Len(next) : ~Matches(prevList, next[j])}
Removals(prevList, next) == SelectSeq(prevList, LAMBDA p : ~Matches(next, p))

\* collectionState.findIndex(item => item.id === id): 0 stands for -1.
FindIndex(ids, id) ==
  IF \E k \in 1..Len(ids) : ids[k] = id
  THEN CHOOSE k \in 1..Len(ids) : ids[k] = id /\ \A j \in 1..(k - 1) : ids[j] # id
  ELSE 0

\* collectionState.splice(i, 1): with i = -1 the last element goes.
SpliceOne(list, i) ==
  LET at == IF i = 0 THEN Len(list) ELSE i
  IN [k \in 1..(Len(list) - (IF list = <<>> THEN 0 ELSE 1)) |->
        IF k < at THEN list[k] ELSE list[k + 1]]

\* The collection while update or an emitter works on it: the members (by
\* revision) with their ids, the dependency edges, the entities created
\* (id and the fields they were added with), the places whose id is to be
\* drawn, and the uuids drawn so far.
\* drop(state.value, r.id), then origRev.dependencies.delete(droppedRef).
Drop(st, id) ==
  LET i == FindIndex(st.ids, id)
  IN [st EXCEPT !.members = SpliceOne(@, i),
                !.ids = SpliceOne(@, i),
                !.edges = IF i = 0 THEN @
                          ELSE SelectSeq(@, LAMBDA e : e.ref # st.members[i])]

\* removals.forEach: only a removal with a valid id drops a member.
RECURSIVE Drops(_, _)
Drops(st, removals) ==
  IF removals = <<>> THEN st
  ELSE Drops(IF validate(Head(removals).id) THEN Drop(st, Head(removals).id)
             ELSE st,
             Tail(removals))

\* append(collectionReference, type, fields): add creates the entity (with
\* a fresh id when fields carries no valid one) and the collection's state
\* gains its reference.
AppendItem(st, id, fields) ==
  LET _id == IF validate(id) THEN id ELSE st.uuid + 2
  IN [st EXCEPT !.members = Append(@, NumUsed + Len(st.created) + 1),
                !.ids = Append(@, _id),
                !.created = Append(@, [id |-> _id, fields |-> fields]),
                !.uuid = IF validate(id) THEN @ ELSE @ + 1]

\* An update that records the referent's own revision (the first one
\* checked out) as the dependent of the addition.
AppendRefToReferent(st, a) ==
  LET st2 == AppendItem(st, a.id, EmptyFields)
  IN [st2 EXCEPT !.edges = Append(@, [ref |-> 1, rel |-> "rel"])]

\* An addition with a valid id: append, then
\* origRev.dependencies.set(appendedRef, relationship).
AppendRef(st, a) ==
  LET st2 == AppendItem(st, a.id, EmptyFields)
  IN [st2 EXCEPT !.edges =
        Append(@, [ref |-> st2.members[Len(st2.members)], rel |-> "rel"])]

\* An update that both appends an addition without a valid id and defers it.
DeferNullAndAppend(st, a, i) ==
  [AppendRef(st, a) EXCEPT !.nullIndices = Append(@, i)]

\* An addition without a valid id: nullIndices.push(i), nothing appended.
DeferNull(st, a, i) == [st EXCEPT !.nullIndices = Append(@, i)]

\* additions.forEach over the places diff reported, in order.
RECURSIVE Additions(_, _, _, _)
Additions(st, next, indices, i) ==
  IF i > Len(next) THEN st
  ELSE Additions(IF i \notin indices THEN st
                 ELSE IF validate(next[i].id) THEN AppendRef(st, next[i])
                 ELSE DeferNull(st, next[i], i),
                 next, indices, i + 1)

\* next.map: every deferred place gets { ...n, id: uuidv4() }.
InSeq(q, x) == \E k \in 1..Len(q) : q[k] = x
Rank(q, x) == CHOOSE k \in 1..Len(q) : q[k] = x
WithIds(st, next) ==
  [i \in 1..Len(next) |->
     IF InSeq(st.nullIndices, i)
     THEN Ident(st.uuid + 1 + Rank(st.nullIndices, i), next[i].meta)
     ELSE next[i]]

\* The revisions createEntity made for the entities in created, each with
\* the task add pushed on its queue.
IsNew(created, r) == r > NumUsed /\ r <= NumUsed + Len(created)
Created(created) ==
  [revId |-> [r \in Revs |-> IF IsNew(created, r)
                THEN created[r - NumUsed].id ELSE revId[r]],
   state |-> [r \in Revs |-> IF IsNew(created, r) THEN DefaultState ELSE state[r]],
   transactions |-> [r \in Revs |-> IF IsNew(created, r)
                THEN RestoreTransactions(created[r - NumUsed].id)
                ELSE transactions[r]],
   hist |-> [r \in Revs |-> IF IsNew(created, r)
                THEN RestoreTransactions(created[r - NumUsed].id) ELSE hist[r]],
   prev |-> [r \in Revs |-> IF IsNew(created, r)
                THEN FarmCreate(created[r - NumUsed].id) ELSE prev[r]],
   tasks |-> [r \in Revs |-> IF IsNew(created, r)
                THEN <<AddTask(created[r - NumUsed].fields)>> ELSE tasks[r]]]

\* map(pick(['id', 'type']), next): the ids a record can match.
FilterIds(next) == {next[k].id : k \in 1..Len(next)} \cap Ids

\* update(next, prev) for a list-shaped relationship of revision s; seen is
\* what the watcher holds as its old value afterwards.  next is a list, so
\* neither `!next` nor validate(next?.id) holds and the to-one branches
\* are passed over.
Update(s, next, prevList, seen) ==
  LET st0 == [members |-> linked.members,
              ids |-> [k \in 1..Len(linked.members) |-> revId[linked.members[k]]],
              edges |-> deps[s].edges, created |-> <<>>,
              nullIndices |-> <<>>, uuid |-> calls.uuid]
      st1 == Drops(st0, Removals(prevList, next))
      st2 == Additions(st1, next, Indices(prevList, next), 1)
      withIds == WithIds(st2, next)
      n == Len(st2.nullIndices)
      c == Created(st2.created)
      w0 == [transactions |-> c.transactions, tasks |-> c.tasks,
             backup |-> backup, state |-> c.state, hist |-> c.hist,
             calls |-> [calls EXCEPT !.uuid = st2.uuid + n], revId |-> c.revId]
      w == IF n > 0 THEN ReviseIn(w0, s, OneField("rel", RelVal(TRUE, withIds)))
           ELSE w0
  IN /\ NumUsed + Len(st2.created) <= MaxRev
     /\ st2.uuid + n + 1 <= MaxId
     /\ revId' = c.revId
     /\ prev' = c.prev
     /\ state' = w.state
     /\ transactions' = w.transactions
     /\ tasks' = w.tasks
     /\ hist' = w.hist
     /\ backup' = w.backup
     /\ calls' = w.calls
     /\ deps' = [deps EXCEPT ![s] = [isMap |-> TRUE, edges |-> st2.edges]]
     /\ linked' = [linked EXCEPT
          !.set = TRUE, !.src = s, !.coll = TRUE,
          !.members = st2.members,
          !.filter = IF linked.coll THEN @ ELSE FilterIds(next),
          !.pc = IF linked.coll THEN @ ELSE "reading",
          !.seen = seen,
          !.incoming = IF linked.passes = 0 THEN next ELSE @,
          !.synth = IF linked.passes = 0 /\ n > 0 THEN withIds ELSE @,
          !.wrote = IF linked.passes = 0 /\ n > 0 THEN w.calls.revise ELSE @,
          !.passes = @ + 1]

\* checkout(entity, next.type, prev.id) inside update: createEntity, and the
\* load task when the id is valid.  One revision is made, for idArg.
CheckedOut(idArg, uuid) ==
  LET r == NumUsed + 1
      id == IF validate(idArg) THEN idArg ELSE uuid + 2
      restored == RestoreTransactions(id)
  IN [revId |-> [revId EXCEPT ![r] = id],
      state |-> [state EXCEPT ![r] = DefaultState],
      transactions |-> [transactions EXCEPT ![r] = restored],
      hist |-> [hist EXCEPT ![r] = restored],
      prev |-> [prev EXCEPT ![r] = FarmCreate(id)],
      tasks |-> [tasks EXCEPT ![r] =
                   IF EarlyReturn(idArg) THEN <<>> ELSE <<LoadTask(restored)>>],
      uuid |-> IF validate(idArg) THEN uuid ELSE uuid + 1,
      ref |-> r]

\* origRev.dependencies.delete(state.value)
DeleteEdge(edges, ref) == SelectSeq(edges, LAMBDA e : e.ref # ref)

\* checkout(entity, next.type, prev.id): the id handed to checkout is the
\* previous identifier's.
CheckoutArg(next, prevList) == prevList[1].id

\* update(next, prev) for a relationship of revision s that holds a single
\* resource identifier: next and prevList are empty (null or undefined) or
\* hold the one identifier.  Nothing is list-shaped, so the one-to-many
\* part is passed over.
UpdateOne(s, next, prevList, seen) ==
  LET cleared == next = <<>> /\ prevList # <<>> /\ validate(prevList[1].id)
      changed == /\ next # <<>> /\ validate(next[1].id)
                 /\ (prevList = <<>> \/ next[1].id # prevList[1].id)
      throws == changed /\ prevList = <<>>
      makes == changed /\ ~throws
      co == CheckedOut(IF makes THEN CheckoutArg(next, prevList) ELSE 0, calls.uuid)
      edges1 == IF cleared \/ changed THEN DeleteEdge(deps[s].edges, linked.sat)
                ELSE deps[s].edges
      edges2 == IF makes THEN Append(edges1, [ref |-> co.ref, rel |-> "rel"])
                ELSE edges1
  IN /\ makes => (NumUsed < MaxRev /\
                   (validate(CheckoutArg(next, prevList)) \/ calls.uuid + 2 < MaxId))
     /\ revId' = IF makes THEN co.revId ELSE revId
     /\ prev' = IF makes THEN co.prev ELSE prev
     /\ state' = IF makes THEN co.state ELSE state
     /\ transactions' = IF makes THEN co.transactions ELSE transactions
     /\ tasks' = IF makes THEN co.tasks ELSE tasks
     /\ hist' = IF makes THEN co.hist ELSE hist
     /\ backup' = backup
     /\ calls' = IF makes THEN [calls EXCEPT !.uuid = co.uuid] ELSE calls
     /\ deps' = [deps EXCEPT ![s] = [isMap |-> TRUE, edges |-> edges2]]
     /\ linked' = [linked EXCEPT
          !.set = TRUE, !.src = s, !.seen = seen,
          !.sat = IF cleared THEN 0 ELSE IF makes THEN co.ref ELSE @,
          !.before = prevList, !.oldSat = linked.sat,
          !.threw = throws,
          !.passes = @ + 1]

\* setLinkWatcher once the referent is a checked-out revision s: the watcher
\* is set on the relationship and update runs at once on its value.  The
\* relationship keeps its shape, a list or a single identifier.
SetLinkWatcher(s) ==
  IF state[s].rel.many
  THEN Update(s, state[s].rel.ids, <<>>, state[s].rel.ids)
  ELSE UpdateOne(s, state[s].rel.ids, <<>>, state[s].rel.ids)

\* link(referent, 'rel', entity) on a checked-out revision.
Link(s) ==
  /\ Used(s)
  /\ ~linked.set
  /\ linked.arg = "none"
  /\ SetLinkWatcher(s)
  /\ UNCHANGED <<logStore, replayed, picked, listeners, cache, remote>>

\* A link that takes any referent.
InvalidReferentNever(kind) == FALSE

\* !isProxy(referent) && !isRef(referent): a referent that is neither a
\* reactive proxy (a checked-out reference is one) nor a Vue ref.
InvalidReferent(kind) == kind \notin {"proxy", "ref"}

\* link(referent, 'rel', entity) on a referent that is no checked-out
\* reference: a Vue ref that holds nothing yet ("ref"), a reactive object
\* that is no reference ("proxy"), or anything else ("plain").  An invalid
\* referent throws before anything is registered; otherwise the watcher
\* cannot be set yet and watchEffect(setLinkWatcher) is registered.
LinkUnresolved(kind) ==
  /\ ~linked.set
  /\ linked.arg = "none"
  /\ linked' = IF InvalidReferent(kind)
                THEN [linked EXCEPT !.arg = kind, !.error = TRUE]
                ELSE [linked EXCEPT !.arg = kind, !.effect = TRUE]
  /\ UNCHANGED <<logStore, replayed, picked, revId, state, transactions, tasks, prev, listeners, deps,
                 cache, remote, backup, hist, calls>>

\* The Vue ref link was given comes to hold the checked-out reference s:
\* the watch effect runs setLinkWatcher again.
ResolvePlaceholder(s) ==
  /\ Used(s)
  /\ linked.arg = "ref" /\ linked.effect
  /\ ~linked.set
  /\ SetLinkWatcher(s)
  /\ UNCHANGED <<logStore, replayed, picked, listeners, cache, remote>>

\* watcher.unwatch(), when linkWatchers holds a watcher for the reference.
Stopped(l) == l.set \/ l.unwatched

\* unlink(reference).
Unlink ==
  /\ linked.arg # "none" \/ linked.set
  /\ ~linked.error
  /\ ~linked.unlinked
  /\ linked' = [linked EXCEPT !.unwatched = Stopped(linked), !.unlinked = TRUE,
                              !.atUnlink = <<linked.sat, linked.members>>]
  /\ UNCHANGED <<logStore, replayed, picked, revId, state, transactions, tasks, prev, listeners, deps,
                 cache, remote, backup, hist, calls>>

\* The watcher's callback: update(next, prev) once the relationship's value
\* is no longer the one the watcher saw last.
WatcherFlush ==
  /\ linked.set
  /\ ~linked.unwatched
  /\ state[linked.src].rel.ids # linked.seen
  /\ IF state[linked.src].rel.many
     THEN Update(linked.src, state[linked.src].rel.ids, linked.seen,
                 state[linked.src].rel.ids)
     ELSE UpdateOne(linked.src, state[linked.src].rel.ids, linked.seen,
                    state[linked.src].rel.ids)
  /\ UNCHANGED <<logStore, replayed, picked, listeners, cache, remote>>

\* drop(collectionReference, id) called by the caller on the collection
\* link returned: findIndex, then splice(i, 1) on the collection's state.
DropCall(id) ==
  /\ linked.set
  /\ linked.coll
  /\ LET ids == [k \in 1..Len(linked.members) |-> revId[linked.members[k]]]
         i == FindIndex(ids, id)
     IN linked' = [linked EXCEPT !.members = SpliceOne(@, i)]
  /\ UNCHANGED <<logStore, replayed, picked, revId, state, transactions, tasks, prev,
                 listeners, deps, cache, remote, backup, hist, calls>>

\* The caller revises the relationship to a list of resource identifiers.
ReviseRel(r, list) ==
  /\ Used(r)
  /\ calls.revise < calls.maxRevise
  /\ ReviseOn(r, OneField("rel", RelVal(TRUE, list)))
  /\ UNCHANGED <<logStore, replayed, picked, linked, revId, prev, listeners, deps, cache, remote>>

\* The caller revises the relationship to a single resource identifier,
\* or to null (an empty val).
ReviseOne(r, val) ==
  /\ Used(r)
  /\ calls.revise < calls.maxRevise
  /\ ReviseOn(r, OneField("rel", RelVal(FALSE, val)))
  /\ UNCHANGED <<logStore, replayed, picked, linked, revId, prev, listeners, deps, cache, remote>>

\* emitCollection(reference)(value): a record whose id no member has is
\* appended, any other is emitted into that member's state.  up holds the
\* collection and the member states.
EmitCollection(up, value) ==
  LET i == FindIndex(up.st.ids, value.id)
  IN IF i = 0
     THEN [up EXCEPT !.st = AppendItem(@, value.id, FlattenEntity(value))]
     ELSE IF up.st.members[i] <= NumUsed
          THEN [up EXCEPT !.state[up.st.members[i]] = Emit(@, value)]
          ELSE up

\* forEach(emitter) over the records answered, by id.
RECURSIVE EmitAll(_, _, _)
EmitAll(up, store, id) ==
  IF id > MaxId THEN up
  ELSE EmitAll(IF id \in linked.filter /\ store[id] # NoRec
               THEN EmitCollection(up, store[id]) ELSE up,
               store, id + 1)

Emitted(store) ==
  EmitAll([st |-> [members |-> linked.members,
                   ids |-> [k \in 1..Len(linked.members) |->
                              revId[linked.members[k]]],
                   edges |-> <<>>, created |-> <<>>, nullIndices |-> <<>>,
                   uuid |-> calls.uuid],
           state |-> state], store, 1)

\* getRecords('entities', entity, query) of checkoutCollection answered:
\* cache.forEach(emitCollection(reference)), then syncEntities is issued.
CollectionCacheAnswer ==
  /\ linked.pc = "reading"
  /\ LET up == Emitted(cache)
         c == Created(up.st.created)
     IN /\ NumUsed + Len(up.st.created) <= MaxRev
        /\ revId' = c.revId
        /\ prev' = c.prev
        /\ transactions' = c.transactions
        /\ tasks' = c.tasks
        /\ hist' = c.hist
        /\ state' = [r \in Revs |-> IF IsNew(up.st.created, r)
                                    THEN c.state[r] ELSE up.state[r]]
        /\ linked' = [linked EXCEPT !.members = up.st.members, !.pc = "syncing"]
  /\ UNCHANGED <<logStore, replayed, picked, listeners, deps, cache, remote, backup, calls>>

\* state.forEach at the end of checkoutCollection: every member's log is
\* replayed over its own state and emitted.
ReplayMember(st, txs) == Emit(st, Replay(st, txs))

\* syncEntities of checkoutCollection answered: collectionSyncHandler emits
\* and caches every record, then the members are replayed.
CollectionSyncAnswer ==
  /\ linked.pc = "syncing"
  /\ \E out \in {"data", "nodata", "repeatable"}, wok \in BOOLEAN :
       /\ out # "data" => wok
       /\ out = "repeatable" => calls.repeatable
       /\ LET store == IF out = "data" THEN remote ELSE [id \in Ids |-> NoRec]
              up == Emitted(store)
              c == Created(up.st.created)
          IN /\ NumUsed + Len(up.st.created) <= MaxRev
             /\ revId' = c.revId
             /\ prev' = c.prev
             /\ transactions' = c.transactions
             /\ tasks' = c.tasks
             /\ hist' = c.hist
             /\ state' = [r \in Revs |->
                            IF ~InSeq(up.st.members, r) THEN up.state[r]
                            ELSE ReplayMember(IF IsNew(up.st.created, r)
                                              THEN c.state[r] ELSE up.state[r],
                                              c.transactions[r])]
             /\ cache' = [id \in Ids |->
                            IF id \in linked.filter /\ store[id] # NoRec /\ wok
                            THEN store[id] ELSE cache[id]]
             /\ linked' = [linked EXCEPT
                  !.members = up.st.members, !.pc = "done",
                  !.repeat = IF out = "repeatable" THEN "subscribed" ELSE @]
  /\ UNCHANGED <<logStore, replayed, picked, listeners, deps, remote, backup, calls>>

\* ------------------------------------------------- retry subscriptions
\* What the retry scheduler hands to a subscriber: late results, an
\* evaluation whose data holds the records.
LateResults(value) == [data |-> <<value>>]

\* syncHandler's subscribe((data) => { emit(state, data); }): the late
\* argument is emitted into the state and nothing else is done.  Whether
\* the scheduler hands over the results or the record itself is not the
\* engine's choice.
LateEntity(r) ==
  /\ Used(r)
  /\ remote[revId[r]] # NoRec
  /\ \E i \in 1..Len(tasks[r]), shape \in {"results", "record"} :
       /\ tasks[r][i].repeat = "subscribed"
       /\ state' = [state EXCEPT ![r] =
                      Emit(@, IF shape = "record" THEN remote[revId[r]]
                              ELSE LateResults(remote[revId[r]]))]
       /\ tasks' = SetTask(tasks, r, i, [tasks[r][i] EXCEPT !.repeat = "delivered"])
  /\ UNCHANGED <<logStore, replayed, picked, linked, revId, transactions, prev, listeners, deps, cache,
                 remote, backup, hist, calls>>

\* collectionSyncHandler's subscribe((results) => { ... }): every late
\* record is upserted by emitCollection and cached.
LateCollection ==
  /\ linked.repeat = "subscribed"
  /\ \E wok \in BOOLEAN :
       LET up == Emitted(remote)
           c == Created(up.st.created)
       IN /\ NumUsed + Len(up.st.created) <= MaxRev
          /\ revId' = c.revId
          /\ prev' = c.prev
          /\ transactions' = c.transactions
          /\ tasks' = c.tasks
          /\ hist' = c.hist
          /\ state' = [r \in Revs |-> IF IsNew(up.st.created, r)
                                      THEN c.state[r] ELSE up.state[r]]
          /\ cache' = [id \in Ids |->
                         IF id \in linked.filter /\ remote[id] # NoRec /\ wok
                         THEN remote[id] ELSE cache[id]]
          /\ linked' = [linked EXCEPT !.members = up.st.members,
                                      !.repeat = "delivered"]
  /\ UNCHANGED <<logStore, replayed, picked, listeners, deps, remote, backup, calls>>

\* ---------------------------------------------------------- hashPicker
\* generateHash works on doubles that leave the 32-bit range, so a number
\* is held as [hi, lo] standing for hi * Limb + lo with 0 <= lo < Limb.
Limb == 65536
Num(hi, lo) == [hi |-> hi + (lo \div Limb), lo |-> lo % Limb]

\* ToInt32, the conversion `<<` applies to its operand and to its result.
ToInt32(n) ==
  LET h == n.hi % Limb
  IN [hi |-> IF 2 * h >= Limb THEN h - Limb ELSE h, lo |-> n.lo]

\* hash = ((hash << 5) - hash) + char: the shift wraps to 32 bits, the
\* subtraction and the sum are done on doubles and do not.
HashStepNoSubtract(hash, char) ==
  LET op == ToInt32(hash)
      shifted == ToInt32(Num(op.hi * 32, op.lo * 32))
  IN Num(shifted.hi, shifted.lo + char)

HashStep(hash, char) ==
  LET op == ToInt32(hash)
      shifted == ToInt32(Num(op.hi * 32, op.lo * 32))
  IN Num(shifted.hi - hash.hi, shifted.lo - hash.lo + char)

\* generateHash(str), str a sequence of char codes.
RECURSIVE generateHash(_)
generateHash(str) ==
  IF str = <<>> THEN Num(0, 0)
  ELSE HashStep(generateHash(SubSeq(str, 1, Len(str) - 1)), str[Len(str)])

\* Math.abs
Abs(n) == IF n.hi < 0 THEN Num(-n.hi - 1, Limb - n.lo) ELSE n

\* hashPicker(arr)(str): arr[Math.abs(generateHash(str)) % arr.length]
hashPicker(arr, str) ==
  LET h == Abs(generateHash(str))
      i == ((h.hi % Len(arr)) * (Limb % Len(arr)) + h.lo) % Len(arr)
  IN arr[i + 1]

\* One picker made from an array, called with one string.
NoPick == [arr |-> <<>>, str |-> <<>>, out |-> <<>>]

\* The characters the strings are made of: 'a' and 'z'.
Chars == {97, 122}
Arrays == {<<"purple">>, <<"purple", "blue", "green">>,
           <<"purple", "blue", "green", "yellow", "orange", "red">>}

\* The caller builds the string, one character at a time.
TypeChar(c) ==
  /\ picked.arr # <<>>
  /\ picked.out = <<>>
  /\ Len(picked.str) < MaxStr
  /\ picked' = [picked EXCEPT !.str = Append(@, c)]
  /\ UNCHANGED <<revId, state, transactions, tasks, prev, listeners, deps,
                 cache, remote, backup, hist, calls, linked, replayed, logStore>>

\* picker(str)
Pick ==
  /\ picked.arr # <<>>
  /\ Len(picked.out) < MaxPicks
  /\ picked' = [picked EXCEPT !.out = Append(@, hashPicker(picked.arr, picked.str))]
  /\ UNCHANGED <<revId, state, transactions, tasks, prev, listeners, deps,
                 cache, remote, backup, hist, calls, linked, replayed, logStore>>

\* ------------------------------------------------ httpModule: getServerLogs
\* rootState.farm.logs, localStorage's syncDate, how many answers were
\* processed, and the logs and the answer of the last call.
NoStore == [logs |-> <<>>, syncDate |-> 0, gets |-> 0, before |-> <<>>, res |-> <<>>]

\* A local log: id is the server's id (0: none yet), body its content (0:
\* the local version, 1: the server's).  A server log: id, changed.
LocalLog(id, localId, pushed, body) ==
  [id |-> id, local_id |-> localId, wasPushedToServer |-> pushed, body |-> body]
ServerLog(id, changed) == [id |-> id, changed |-> changed]

\* checkLog(serverLog): the last local log with the server log's id gives
\* localId and storeIndex; localChange turns false once a local log with
\* that id was pushed to the server.
CheckLog(allLogs, serverLog) ==
  LET same == {i \in 1..Len(allLogs) :
                 allLogs[i].id # 0 /\ allLogs[i].id = serverLog.id}
      last == CHOOSE i \in same : \A j \in same : j <= i
  IN IF same = {} THEN [localId |-> 0, storeIndex |-> 0, localChange |-> TRUE]
     ELSE [localId |-> allLogs[last].local_id, storeIndex |-> last,
           localChange |-> ~(\E i \in same : allLogs[i].wasPushedToServer)]

\* logFactory({ ...log, wasPushedToServer: true, local_id }, STOREFROMSERVER)
FromServer(log, localId) == LocalLog(log.id, localId, TRUE, 1)

\* if (log.changed > syncDate)
ServerChanged(log, syncDate) == log.changed > syncDate

\* processLog(log): addLogFromServer, updateLogFromServer or nothing.
ProcessLog(allLogs, log, syncDate) ==
  LET checkStatus == CheckLog(allLogs, log)
  IN IF checkStatus.localId = 0
     THEN Append(allLogs, FromServer(log, Len(allLogs) + 1))
     ELSE IF ~checkStatus.localChange \/ ServerChanged(log, syncDate)
          THEN [allLogs EXCEPT ![checkStatus.storeIndex] =
                  FromServer(log, checkStatus.localId)]
          ELSE allLogs

\* res.list.forEach(log => processLog(log))
RECURSIVE ProcessAll(_, _, _)
ProcessAll(allLogs, list, syncDate) ==
  IF list = <<>> THEN allLogs
  ELSE ProcessAll(ProcessLog(allLogs, Head(list), syncDate), Tail(list), syncDate)

\* getServerLogs once farm().log.get has answered with res.
GetServerLogs(res) ==
  /\ logStore.gets < MaxGets
  /\ logStore' = [logStore EXCEPT
       !.logs = ProcessAll(logStore.logs, res, logStore.syncDate),
       !.gets = @ + 1, !.before = logStore.logs, !.res = res]
  /\ UNCHANGED <<revId, state, transactions, tasks, prev, listeners, deps,
                 cache, remote, backup, hist, calls, linked, replayed, picked>>

\* ------------------------------------------------------ replay, alone
\* One call of replay(previous, transactions) on its own, its delta applied
\* to the baseline, and replay called again on the result.
NoReplay ==
  [pc |-> "idle", previous |-> NoRec, txs |-> <<>>, fields |-> EmptyFields,
   threw |-> FALSE, next |-> NoRec, again |-> EmptyFields]

\* The baselines the engine hands to replay: undefined (a sync without
\* data), an entity record (commit's previous, checkout's remote value) and
\* a member's flat state (checkoutCollection).
Baselines ==
  {NoRec} \cup {Entity(1, n, EmptyRel, 1) : n \in 0..1}
          \cup {[name |-> n, rel |-> EmptyRel] : n \in 0..1}

\* What revise can push: a constant object or a function of the snapshot.
Pushable(i) == {Tx(i, OneField("name", v)) : v \in NameVals} \cup {TxFn(i)}

\* transactions.push(tx)
PushTransaction(tx) ==
  /\ replayed.pc = "building"
  /\ Len(replayed.txs) < MaxTx
  /\ tx.id = Len(replayed.txs) + 1
  /\ replayed' = [replayed EXCEPT !.txs = Append(@, tx)]
  /\ UNCHANGED <<revId, state, transactions, tasks, prev, listeners, deps,
                 cache, remote, backup, hist, calls, linked, picked, logStore>>

\* const fields = replay(previous, transactions)
RunReplay ==
  /\ replayed.pc = "building"
  /\ LET throws == ReplayThrows(replayed.previous, replayed.txs)
     IN replayed' = [replayed EXCEPT
          !.pc = "replayed",
          !.threw = throws,
          !.fields = IF throws THEN EmptyFields
                     ELSE Replay(replayed.previous, replayed.txs)]
  /\ UNCHANGED <<revId, state, transactions, tasks, prev, listeners, deps,
                 cache, remote, backup, hist, calls, linked, picked, logStore>>

\* The delta applied to the baseline: farm[shortName].update(previous,
\* fields) for an entity record, emit(state, fields) for a flat state.
Applied(previous, fields) ==
  IF previous = NoRec THEN NoRec
  ELSE IF "attributes" \in DOMAIN previous THEN FarmUpdate(previous, fields)
  ELSE Emit(previous, fields)

ApplyFields ==
  /\ replayed.pc = "replayed"
  /\ ~replayed.threw
  /\ replayed' = [replayed EXCEPT
       !.pc = "applied",
       !.next = Applied(replayed.previous, replayed.fields)]
  /\ UNCHANGED <<revId, state, transactions, tasks, prev, listeners, deps,
                 cache, remote, backup, hist, calls, linked, picked, logStore>>

\* replay called again, on the result and with the same transactions.
ReplayAgain ==
  /\ replayed.pc = "applied"
  /\ ~ReplayThrows(replayed.next, replayed.txs)
  /\ replayed' = [replayed EXCEPT
       !.pc = "done",
       !.again = Replay(replayed.next, replayed.txs)]
  /\ UNCHANGED <<revId, state, transactions, tasks, prev, listeners, deps,
                 cache, remote, backup, hist, calls, linked, picked, logStore>>

\* ------------------------------------------------------ specification
\* One entity that exists remotely, perhaps cached, checked out by the
\* caller; nothing is linked.
InitCommon ==
  /\ revId = [r \in Revs |-> 0]
  /\ state = [r \in Revs |-> DefaultState]
  /\ transactions = [r \in Revs |-> <<>>]
  /\ tasks = [r \in Revs |-> <<>>]
  /\ prev = [r \in Revs |-> NoRec]
  /\ listeners = [r \in Revs |-> "none"]
  /\ deps = [r \in Revs |-> NoDeps]
  /\ backup = [id \in Ids |-> <<>>]
  /\ hist = [r \in Revs |-> <<>>]
  /\ linked = NoLink

\* The caller's script: how many calls of each kind it makes; repeatable:
\* whether the remote may answer a sync with a repeatable failure.
Caller(nCheckout, nRevise, nCommit) ==
  [checkout |-> 0, revise |-> 0, commit |-> 0, uuid |-> 0,
   maxCheckout |-> nCheckout, maxRevise |-> nRevise, maxCommit |-> nCommit,
   batch |-> NoBatch, repeatable |-> FALSE]

InitStores ==
  /\ remote = [id \in Ids |-> IF id = 1 THEN Entity(1, 2, EmptyRel, 1) ELSE NoRec]
  /\ \E cached \in {NoRec, Entity(1, 1, EmptyRel, 1)} :
       cache = [id \in Ids |-> IF id = 1 THEN cached ELSE NoRec]

Init ==
  /\ InitCommon
  /\ replayed = NoReplay
  /\ picked = NoPick
  /\ logStore = NoStore
  /\ InitStores
  /\ calls = Caller(MaxCheckout, MaxRevise, MaxCommit)

Next ==
  \/ \E idArg \in {0, 1} : Checkout(idArg)
  \/ \E r \in Revs, h \in {"ok", "throws"} : On(r, h)
  \/ \E r \in Revs, v \in 1..MaxVal : Revise(r, v)
  \/ \E r \in Revs : Commit(r)
  \/ \E r \in Revs : StartTask(r)
  \/ \E r \in Revs : CacheReadAnswer(r)
  \/ \E r \in Revs : LoadSyncAnswer(r)
  \/ \E r \in Revs : CacheWriteAnswer(r)
  \/ \E r \in Revs : CommitSyncAnswer(r)

Spec == Init /\ [][Next]_vars

\* The same entity checked out twice: two revisions of one id.
InitTwo ==
  /\ InitCommon
  /\ replayed = NoReplay
  /\ picked = NoPick
  /\ logStore = NoStore
  /\ InitStores
  /\ calls = Caller(TwoCheckouts, TwoRevises, TwoCommits)

NextTwo ==
  \/ Checkout(1)
  \/ \E r \in Revs, v \in 1..MaxVal : Revise(r, v)
  \/ \E r \in Revs : Commit(r)
  \/ \E r \in Revs : StartTask(r)
  \/ \E r \in Revs : CacheReadAnswer(r)
  \/ \E r \in Revs : LoadSyncAnswer(r)
  \/ \E r \in Revs : CacheWriteAnswer(r)
  \/ \E r \in Revs : CommitSyncAnswer(r)

SpecTwo == InitTwo /\ [][NextTwo]_vars

\* An entity whose to-many relationship was linked: the caller revised the
\* relationship to the identifiers of two new entities, and the link's
\* update appended a member (a revision made by add) and recorded a
\* dependency edge for each.  The caller then revises and commits.
DepRel == RelVal(TRUE, <<Ident(2, 0), Ident(3, 0)>>)
DepTx == Tx(0, OneField("rel", DepRel))
DoneTask(t, value) == Finish([t EXCEPT !.next = value], value)

InitDep ==
  /\ revId = [r \in Revs |-> IF r <= 3 THEN r ELSE 0]
  /\ state = [r \in Revs |->
               IF r = 1 THEN [name |-> 2, rel |-> DepRel] ELSE DefaultState]
  /\ transactions = [r \in Revs |-> IF r = 1 THEN <<DepTx>> ELSE <<>>]
  /\ hist = [r \in Revs |-> IF r = 1 THEN <<DepTx>> ELSE <<>>]
  /\ tasks = [r \in Revs |->
               IF r = 1 THEN <<DoneTask(LoadTask(<<>>), Entity(1, 2, EmptyRel, 1))>>
               ELSE IF r <= 3 THEN <<DoneTask(AddTask(EmptyFields), FarmCreate(r))>>
               ELSE <<>>]
  /\ prev = [r \in Revs |->
              IF r = 1 THEN Entity(1, 2, EmptyRel, 1)
              ELSE IF r <= 3 THEN FarmCreate(r) ELSE NoRec]
  /\ listeners = [r \in Revs |-> "none"]
  /\ deps = [r \in Revs |->
              IF r = 1 THEN [isMap |-> TRUE,
                             edges |-> <<[ref |-> 2, rel |-> "rel"],
                                         [ref |-> 3, rel |-> "rel"]>>]
              ELSE NoDeps]
  /\ backup = [id \in Ids |-> IF id = 1 THEN <<DepTx>> ELSE <<>>]
  /\ cache = [id \in Ids |-> IF id = 1 THEN Entity(1, 2, EmptyRel, 1) ELSE NoRec]
  /\ remote = [id \in Ids |-> IF id = 1 THEN Entity(1, 2, EmptyRel, 1) ELSE NoRec]
  /\ calls = [Caller(0, DepRevises, DepCommits) EXCEPT !.uuid = 2]
  /\ replayed = NoReplay
  /\ picked = NoPick
  /\ logStore = NoStore
  /\ linked = [NoLink EXCEPT !.set = TRUE, !.src = 1, !.coll = TRUE,
                             !.members = <<2, 3>>, !.pc = "done",
                             !.seen = DepRel.ids, !.passes = 1]

NextDep ==
  \/ \E r \in Revs, v \in 1..MaxVal : Revise(r, v)
  \/ \E r \in Revs : Commit(r)
  \/ \E r \in Revs : StartTask(r)
  \/ \E r \in Revs : CacheWriteAnswer(r)
  \/ \E r \in Revs : DepsSettled(r)
  \/ \E r \in Revs : CommitSyncAnswer(r)

SpecDep == InitDep /\ [][NextDep]_vars

\* A caller that checks out one entity, revises its to-many relationship
\* to lists of resource identifiers, some without an id, and links it.
LinkLists ==
  {<<Ident(0, 0)>>, <<Ident(0, 0), Ident(0, 0)>>, <<Ident(1, 0)>>,
   <<Ident(1, 0), Ident(0, 0)>>, <<Ident(0, 0), Ident(1, 0)>>, <<>>}

InitLink ==
  /\ InitCommon
  /\ replayed = NoReplay
  /\ picked = NoPick
  /\ logStore = NoStore
  /\ InitStores
  /\ calls = Caller(LinkCheckouts, LinkRevises, 0)

NextLink ==
  \/ \E idArg \in {0, 1} : Checkout(idArg)
  \/ \E r \in Revs, list \in LinkLists : ReviseRel(r, list)
  \/ \E r \in Revs : Link(r)
  \/ WatcherFlush
  \/ \E r \in Revs : StartTask(r)
  \/ \E r \in Revs : CacheReadAnswer(r)
  \/ \E r \in Revs : LoadSyncAnswer(r)
  \/ CollectionCacheAnswer
  \/ CollectionSyncAnswer

SpecLink == InitLink /\ [][NextLink]_vars

\* The same caller, who also drops members from the collection, by ids
\* that a member has and by ids that none has.
InitDrop ==
  /\ InitCommon
  /\ replayed = NoReplay
  /\ picked = NoPick
  /\ logStore = NoStore
  /\ InitStores
  /\ calls = Caller(LinkCheckouts, DropRevises, 0)

NextDrop ==
  \/ \E idArg \in {0, 1} : Checkout(idArg)
  \/ \E r \in Revs, list \in LinkLists : ReviseRel(r, list)
  \/ \E r \in Revs : Link(r)
  \/ WatcherFlush
  \/ \E id \in Ids : DropCall(id)
  \/ \E r \in Revs : StartTask(r)
  \/ \E r \in Revs : CacheReadAnswer(r)
  \/ \E r \in Revs : LoadSyncAnswer(r)
  \/ CollectionCacheAnswer
  \/ CollectionSyncAnswer

SpecDrop == InitDrop /\ [][NextDrop]_vars

\* A caller that checks out an entity, revises its to-many relationship,
\* links it and commits, with every promise answered in the end: the
\* queue starts a task that is ready, and every cache write, remote sync
\* and awaited dependent commit that is pending answers.
LiveList == <<Ident(1, 0), Ident(0, 0)>>

InitLive ==
  /\ InitCommon
  /\ replayed = NoReplay
  /\ picked = NoPick
  /\ logStore = NoStore
  /\ InitStores
  /\ calls = Caller(LiveCheckouts, LiveRevises, LiveCommits)

NextLive ==
  \/ Checkout(0)
  \/ \E r \in Revs : ReviseRel(r, LiveList)
  \/ \E r \in Revs : Link(r)
  \/ WatcherFlush
  \/ \E r \in Revs : Commit(r)
  \/ \E r \in Revs : StartTask(r)
  \/ \E r \in Revs : CacheWriteAnswer(r)
  \/ \E r \in Revs : DepsSettled(r)
  \/ \E r \in Revs : CommitSyncAnswer(r)
  \/ CollectionCacheAnswer
  \/ CollectionSyncAnswer

Answered ==
  \A r \in Revs :
    /\ WF_vars(StartTask(r))
    /\ WF_vars(CacheWriteAnswer(r))
    /\ WF_vars(DepsSettled(r))
    /\ WF_vars(CommitSyncAnswer(r))

SpecLive == InitLive /\ [][NextLive]_vars /\ Answered

\* A new entity whose relationship holds a single identifier (null at
\* first) has been checked out; the caller revises the relationship,
\* links it (with the reference, or with something that is none) and
\* unlinks.  MaxId is an id the caller knows from elsewhere.
OneVals == {<<>>, <<Ident(0, 0)>>, <<Ident(1, 0)>>, <<Ident(MaxId, 0)>>}
NullRel == RelVal(FALSE, <<>>)

InitOne ==
  /\ revId = [r \in Revs |-> IF r = 1 THEN 2 ELSE 0]
  /\ state = [r \in Revs |->
               IF r = 1 THEN [name |-> 0, rel |-> NullRel] ELSE DefaultState]
  /\ transactions = [r \in Revs |-> <<>>]
  /\ hist = [r \in Revs |-> <<>>]
  /\ tasks = [r \in Revs |-> <<>>]
  /\ prev = [r \in Revs |-> IF r = 1 THEN Entity(2, 0, NullRel, 0) ELSE NoRec]
  /\ listeners = [r \in Revs |-> "none"]
  /\ deps = [r \in Revs |-> NoDeps]
  /\ backup = [id \in Ids |-> <<>>]
  /\ InitStores
  /\ calls = [Caller(0, OneRevises, 0) EXCEPT !.uuid = 1]
  /\ replayed = NoReplay
  /\ picked = NoPick
  /\ logStore = NoStore
  /\ linked = NoLink

NextOne ==
  \/ \E r \in Revs, val \in OneVals : ReviseOne(r, val)
  \/ \E r \in Revs : Link(r)
  \/ \E kind \in {"ref", "proxy", "plain"} : LinkUnresolved(kind)
  \/ \E r \in Revs : ResolvePlaceholder(r)
  \/ Unlink
  \/ WatcherFlush

SpecOne == InitOne /\ [][NextOne]_vars

\* A caller that checks out new entities, revises them and commits an
\* array of references, one of which may be no reference.
ArrLists == {<<1, 2>>, <<2, 1>>, <<1, 0, 2>>, <<0, 1>>, <<1, 0>>}

InitArr ==
  /\ InitCommon
  /\ replayed = NoReplay
  /\ picked = NoPick
  /\ logStore = NoStore
  /\ InitStores
  /\ calls = Caller(ArrCheckouts, ArrRevises, ArrCommits)

NextArr ==
  \/ Checkout(0)
  \/ \E r \in Revs, v \in 1..MaxVal : Revise(r, v)
  \/ \E elems \in ArrLists : CommitAll(elems)
  \/ \E r \in Revs : StartTask(r)
  \/ \E r \in Revs : CacheWriteAnswer(r)
  \/ \E r \in Revs : CommitSyncAnswer(r)

SpecArr == InitArr /\ [][NextArr]_vars

\* replay on its own: every baseline, every list of up to MaxTx
\* transactions.
InitReplay ==
  /\ InitCommon
  /\ cache = [id \in Ids |-> NoRec]
  /\ remote = [id \in Ids |-> NoRec]
  /\ calls = Caller(0, 0, 0)
  /\ picked = NoPick
  /\ logStore = NoStore
  /\ \E b \in Baselines : replayed = [NoReplay EXCEPT !.pc = "building", !.previous = b]

NextReplay ==
  \/ \E i \in 1..MaxTx : \E tx \in Pushable(i) : PushTransaction(tx)
  \/ RunReplay
  \/ ApplyFields
  \/ ReplayAgain

SpecReplay == InitReplay /\ [][NextReplay]_vars

\* hashPicker on its own: every array of Arrays, every string of up to
\* MaxStr characters.
InitHash ==
  /\ InitCommon
  /\ cache = [id \in Ids |-> NoRec]
  /\ remote = [id \in Ids |-> NoRec]
  /\ calls = Caller(0, 0, 0)
  /\ logStore = NoStore
  /\ replayed = NoReplay
  /\ \E arr \in Arrays : picked = [NoPick EXCEPT !.arr = arr]

NextHash ==
  \/ \E c \in Chars : TypeChar(c)
  \/ Pick

SpecHash == InitHash /\ [][NextHash]_vars

\* One entity checked out by id and a collection checked out by a filter
\* that matches it, while the remote may answer with repeatable failures
\* whose results the retry scheduler delivers later.
InitLate ==
  /\ revId = [r \in Revs |-> 0]
  /\ state = [r \in Revs |-> DefaultState]
  /\ transactions = [r \in Revs |-> <<>>]
  /\ tasks = [r \in Revs |-> <<>>]
  /\ prev = [r \in Revs |-> NoRec]
  /\ listeners = [r \in Revs |-> "none"]
  /\ deps = [r \in Revs |-> NoDeps]
  /\ backup = [id \in Ids |-> <<>>]
  /\ hist = [r \in Revs |-> <<>>]
  /\ InitStores
  /\ calls = [Caller(LateCheckouts, LateRevises, 0) EXCEPT !.repeatable = TRUE]
  /\ replayed = NoReplay
  /\ picked = NoPick
  /\ logStore = NoStore
  /\ linked = [NoLink EXCEPT !.coll = TRUE, !.filter = {1}, !.pc = "reading"]

NextLate ==
  \/ Checkout(1)
  \/ \E r \in Revs : On(r, "ok")
  \/ \E r \in Revs, v \in 1..MaxVal : Revise(r, v)
  \/ \E r \in Revs : StartTask(r)
  \/ \E r \in Revs : CacheReadAnswer(r)
  \/ \E r \in Revs : LoadSyncAnswer(r)
  \/ \E r \in Revs : LateEntity(r)
  \/ CollectionCacheAnswer
  \/ CollectionSyncAnswer
  \/ LateCollection

SpecLate == InitLate /\ [][NextLate]_vars

\* getServerLogs on its own.  The local store holds at most one log per
\* server id; a log without a server id was never pushed.
LogIds == {1, 2}
Dates == {1, 2}
LocalLogs ==
  {LocalLog(id, 1, pushed, 0) : id \in LogIds, pushed \in BOOLEAN}
    \cup {LocalLog(0, 1, FALSE, 0)}
Numbered(list) == [i \in 1..Len(list) |-> [list[i] EXCEPT !.local_id = i]]
Stores ==
  {Numbered(l) : l \in {l \in UNION {[1..n -> LocalLogs] : n \in 0..MaxLogs} :
     \A i, j \in 1..Len(l) : (i # j /\ l[i].id # 0) => l[i].id # l[j].id}}
Answers ==
  UNION {[1..n -> {ServerLog(id, d) : id \in LogIds, d \in Dates}] : n \in 1..MaxLogs}

InitLogs ==
  /\ InitCommon
  /\ cache = [id \in Ids |-> NoRec]
  /\ remote = [id \in Ids |-> NoRec]
  /\ calls = Caller(0, 0, 0)
  /\ replayed = NoReplay
  /\ picked = NoPick
  /\ \E logs \in Stores, d \in Dates :
       logStore = [NoStore EXCEPT !.logs = logs, !.syncDate = d]

NextLogs == \E res \in Answers : GetServerLogs(res)

SpecLogs == InitLogs /\ [][NextLogs]_vars

\* =============================================================== claims
Range(q) == {q[k] : k \in 1..Len(q)}
CommitTasks(r) == {i \in 1..Len(tasks[r]) : tasks[r][i].kind = "commit"}
HasLoad(r) == Len(tasks[r]) >= 1 /\ tasks[r][1].kind = "load"

\* The lists captured by the first n tasks of a queue, in commit order.
RECURSIVE CapturedUpTo(_, _)
CapturedUpTo(q, n) ==
  IF n = 0 THEN <<>>
  ELSE CapturedUpTo(q, n - 1) \o (IF q[n].kind = "commit" THEN q[n].txs ELSE <<>>)

\* C1: for every revision, the lists captured by its commits, in the order
\* of the commit calls, followed by its current log, are exactly the log's
\* history (what was restored, then every revise, in order): each
\* transaction is in the log or in exactly one commit's list, and a revise
\* made after a commit call is not in that commit's list but in the log the
\* next commit captures.
C1_EachTransactionInOneCommit ==
  \A r \in Revs :
    CapturedUpTo(tasks[r], Len(tasks[r])) \o transactions[r] = hist[r]

\* C1 witness: a commit that captured a revise is still in flight while a
\* later commit, queued behind it, has captured a revise made since.
C1_Witness ==
  \E r \in Revs : \E i, j \in CommitTasks(r) :
    /\ i < j
    /\ Running(tasks[r][i]) /\ tasks[r][i].txs # <<>>
    /\ tasks[r][j].pc = "queued" /\ tasks[r][j].txs # <<>>

\* The load and commit tasks that are executing for entity id.
Executing(id) ==
  UNION {{<<r, i>> : i \in {k \in 1..Len(tasks[r]) : Running(tasks[r][k])}} :
           r \in {q \in Revs : revId[q] = id}}

\* C3 as stated: for every entity id, at most one load or commit task is
\* executing at any time, however often the id was checked out.
C3_OneTaskPerEntity ==
  \A id \in Ids : Cardinality(Executing(id)) <= 1

\* C3 amended: for every revision (one call of checkout), a task that has
\* started has every task pushed before it settled: at most one task of the
\* revision executes at a time and the tasks run in the order pushed.
C3_OneTaskPerRevision ==
  \A r \in Revs : \A i \in 1..Len(tasks[r]) :
    tasks[r][i].pc # "queued" =>
      \A j \in 1..(i - 1) : Settled(tasks[r][j])

\* C3 witness: two revisions of one id each have a task executing, and one
\* of them has a commit queued behind its executing task.
C3_Witness ==
  \E r1, r2 \in Revs :
    /\ r1 # r2 /\ Used(r1) /\ revId[r1] = revId[r2]
    /\ \E i \in 1..Len(tasks[r1]) : Running(tasks[r1][i])
    /\ \E i, j \in 1..Len(tasks[r2]) :
         i < j /\ Running(tasks[r2][i]) /\ tasks[r2][j].pc = "queued"

\* C4: once the load sequence of a checked-out revision has ended (and no
\* commit task has run since), the live state holds the value last set by
\* revise for `name`, whatever the cache read and the remote sync returned.
C4_ReviseSurvivesLoad ==
  \A r \in Revs :
    ( /\ HasLoad(r) /\ Settled(tasks[r][1])
      /\ \A i \in 2..Len(tasks[r]) : tasks[r][i].pc = "queued"
      /\ hist[r] # <<>> )
    => state[r].name = hist[r][Len(hist[r])].fields.name

\* A commit task whose remote send was answered without data.
SentNoData(t) == t.kind = "commit" /\ t.pc = "done" /\ t.val = NoRec

\* C5 as stated: when the send of a commit returned no data, every
\* transaction that commit captured is still in the revision's log or in
\* the backup store.
C5_EditsKeptInLogOrBackup ==
  \A r \in Revs : \A i \in CommitTasks(r) :
    SentNoData(tasks[r][i]) =>
      \A tx \in Range(tasks[r][i].txs) :
        tx \in Range(transactions[r]) \/ tx \in Range(backup[revId[r]])

\* C6: every transaction in a revision's log has its delta recorded in the
\* backup store of the entity.
C6_LogIsBackedUp ==
  \A r \in Revs : \A tx \in Range(transactions[r]) :
    tx \in Range(backup[revId[r]])

\* C9: no load or commit task fails because a registered listener threw.
C9_ListenerNeverFailsTask ==
  \A r \in Revs : \A i \in 1..Len(tasks[r]) : tasks[r][i].why # "listener"

\* C10: no commit fails because its write to the local cache was rejected.
C10_CacheFailureNotFatal ==
  \A r \in Revs : \A i \in 1..Len(tasks[r]) : tasks[r][i].why # "cachewrite"

\* The dependent commits a commit task awaited, and their responses.
Awaited(t) == Range(t.waits)
DepTask(w) == tasks[w.ref][w.idx]

\* The relationship field of entity carries the revision identifiers of
\* response on the resource identifier of response's entity, if response
\* has any.
HasMetaOf(entity, rel, response) ==
  (response # NoRec /\ response.rid # 0) =>
    (\E k \in 1..Len(entity.relationships[rel].ids) :
       /\ entity.relationships[rel].ids[k].id = response.id
       /\ entity.relationships[rel].ids[k].meta = response.rid)

\* C2: when the entity of a commit is sent to the remote store, every
\* dependent commit it fanned out has completed, and the revision
\* identifiers each returned are on the resource identifier of that
\* dependent in the relationship field of the entity sent.
C2_DependentsSplicedBeforeSend ==
  \A r \in Revs : \A i \in CommitTasks(r) :
    (tasks[r][i].pc = "sending") =>
      (\A w \in Awaited(tasks[r][i]) :
         (DepTask(w).pc = "done") /\ HasMetaOf(tasks[r][i].final, w.rel, DepTask(w).val))

\* A response without the revision identifiers, or no response data at all.
Lacking(val) == val = NoRec \/ val.rid = 0

\* A commit task past its fan-out whose dependent commits all resolved,
\* some with a response that lacks the identifiers.
FannedOutAndResolved(t) ==
  /\ t.waits # <<>>
  /\ t.pc # "waitdeps"
  /\ \A w \in Awaited(t) : DepTask(w).pc = "done"
  /\ \E w \in Awaited(t) : Lacking(DepTask(w).val)
AllLacking(t) == \A w \in Awaited(t) : Lacking(DepTask(w).val)

\* C8: when every dependent commit has resolved and some response lacks the
\* revision identifiers, the containing commit does not fail on it: it goes
\* on to send, and where every response lacks them the relationship field
\* sent is the one replay produced.
C8_MissingIdentifiersSkipped ==
  \A r \in Revs : \A i \in CommitTasks(r) :
    FannedOutAndResolved(tasks[r][i]) =>
      ( /\ tasks[r][i].why # "splice"
        /\ AllLacking(tasks[r][i]) =>
             (tasks[r][i].final.relationships.rel = tasks[r][i].fields.rel) )

\* The ids of the linked collection's members, in the collection's order.
MemberIds == [k \in 1..Len(linked.members) |-> revId[linked.members[k]]]
LacksId(a) == ~validate(a.id)
Places(list) == 1..Len(list)

\* The update that the link's own revise re-triggered has run: it was the
\* second run, and the value it saw is the list written with fresh ids.
RoundTripDone ==
  linked.passes = 2 /\ linked.synth # <<>> /\ linked.seen = linked.synth

\* The first update wrote its list of fresh ids through revise.
WroteSynth ==
  \E i \in Places(hist[linked.src]) :
    /\ hist[linked.src][i].id = linked.wrote
    /\ DOMAIN hist[linked.src][i].fields = {"rel"}
    /\ hist[linked.src][i].fields.rel = RelVal(TRUE, linked.synth)

\* C7: when a to-many relationship is linked and some incoming identifier
\* lacks a valid id, the first update builds a list in which every such
\* place has a fresh valid id (the other places unchanged, all ids
\* distinct) and writes it to the source through revise; once the update
\* this re-triggers has run, the linked collection has exactly one member
\* per incoming element: as many members as elements, and the id of every
\* element of the list is the id of exactly one member.
C7_OneMemberPerElement ==
  (linked.passes >= 1 /\ (\E k \in Places(linked.incoming) : LacksId(linked.incoming[k])))
  => ( /\ Len(linked.synth) = Len(linked.incoming)
       /\ (\A k \in Places(linked.synth) :
             /\ validate(linked.synth[k].id)
             /\ (~LacksId(linked.incoming[k]) => (linked.synth[k] = linked.incoming[k])))
       /\ (\A j, k \in Places(linked.synth) :
             (j # k) => (linked.synth[j].id # linked.synth[k].id))
       /\ WroteSynth
       /\ (RoundTripDone =>
             ( /\ Len(linked.members) = Len(linked.incoming)
               /\ (\A k \in Places(linked.synth) :
                     Cardinality({m \in Places(MemberIds) :
                                    MemberIds[m] = linked.synth[k].id}) = 1) )) )

\* Two identifiers without ids were linked, and after the re-triggered
\* update the collection has two members.
C7_Witness ==
  /\ RoundTripDone
  /\ Len(linked.incoming) = 2
  /\ \A k \in Places(linked.incoming) : LacksId(linked.incoming[k])
  /\ Len(linked.members) = 2

\* The last run of update was given a single valid identifier that differs
\* from the previous value.
ChangedToValid ==
  /\ linked.passes >= 1
  /\ ~linked.coll
  /\ linked.seen # <<>>
  /\ validate(linked.seen[1].id)
  /\ (linked.before = <<>> \/ linked.before[1].id # linked.seen[1].id)

HasEdge(s, ref) ==
  \E k \in 1..Len(deps[s].edges) :
    deps[s].edges[k].ref = ref /\ deps[s].edges[k].rel = "rel"

\* C11: when the linked relationship changes (or is first observed) to a
\* single valid identifier X that differs from the previous value, the
\* linked reference afterwards stands for a revision of the entity with id
\* X, the source's dependency map holds an edge from that revision to the
\* relationship, and the edge of the old satellite is gone.
C11_SatelliteFollowsIdentifier ==
  ChangedToValid =>
    ( /\ linked.sat # 0
      /\ revId[linked.sat] = linked.seen[1].id
      /\ HasEdge(linked.src, linked.sat)
      /\ ((linked.oldSat # 0 /\ linked.oldSat # linked.sat)
            => ~HasEdge(linked.src, linked.oldSat)) )

\* C12: a commit called with an array of references has started a commit
\* for every element that has a revision, whatever the other elements
\* are, and the call itself did not fail.
C12_EveryElementCommitted ==
  (calls.batch.elems # <<>>) =>
    ( /\ ~calls.batch.threw
      /\ (\A k \in 1..Len(calls.batch.elems) :
            HasRevision(calls.batch.elems[k]) =>
              (\E j \in 1..Len(calls.batch.waits) :
                 calls.batch.waits[j].ref = calls.batch.elems[k])) )

\* C13: once unlink has been called, the linked reference stands for what
\* it stood for at that moment, whatever happens to the source afterwards.
C13_UnlinkedSatelliteKept ==
  linked.unlinked =>
    (linked.sat = linked.atUnlink[1] /\ linked.members = linked.atUnlink[2])

\* Nothing of a link is registered: no watcher, no watch effect, no run of
\* update, no satellite.
NothingRegistered ==
  /\ ~linked.set /\ ~linked.effect
  /\ linked.passes = 0 /\ linked.sat = 0 /\ linked.members = <<>>

\* C14 as stated: link called with anything that is not a checked-out
\* reference and holds none (an empty Vue ref, a reactive object that is
\* no reference, any other value) fails and registers nothing.
C14_NonReferenceRejected ==
  (linked.arg \in {"ref", "proxy", "plain"} /\ linked.src = 0) =>
    (linked.error /\ NothingRegistered)

\* C14 amended: link fails, registering nothing, exactly when its referent
\* is neither a reactive proxy nor a Vue ref; a Vue ref or reactive object
\* that holds no checked-out reference is accepted as a placeholder: link
\* does not fail and registers a watch effect that waits for a reference.
C14_InvalidReferentRejected ==
  /\ (linked.arg = "plain") => (linked.error /\ NothingRegistered)
  /\ (linked.arg \in {"ref", "proxy"}) => (~linked.error /\ linked.effect)

\* C14 witness: link was called with a value that is neither proxy nor
\* ref, and failed.
C14_Witness == linked.arg = "plain" /\ linked.error

\* C15: a revision made by checkout with an absent or invalid id (its id is
\* a fresh one, not the id of the entity that exists remotely) never has a
\* load task, so no cache read and no remote sync is started for it.
C15_NewEntityNoLoad ==
  \A r \in Revs :
    (Used(r) /\ revId[r] # 1) =>
      (\A i \in 1..Len(tasks[r]) : tasks[r][i].kind # "load")

\* C15 witness: a brand-new entity was checked out and revised while the
\* queue of its revision is still empty.
C15_Witness ==
  \E r \in Revs :
    Used(r) /\ revId[r] # 1 /\ tasks[r] = <<>> /\ transactions[r] # <<>>

\* replay has returned (without throwing).
Returned == replayed.pc \in {"replayed", "applied", "done"} /\ ~replayed.threw

\* C16: for every baseline, replay of an empty transaction list returns
\* the empty delta (and does not throw).
C16_EmptyListEmptyDelta ==
  (replayed.pc \in {"replayed", "applied", "done"} /\ replayed.txs = <<>>) =>
    (~replayed.threw /\ replayed.fields = EmptyFields)

\* C16 witness: replay has returned for an empty list and an entity record.
C16_Witness ==
  /\ replayed.pc = "replayed"
  /\ replayed.txs = <<>>
  /\ replayed.previous # NoRec
  /\ "attributes" \in DOMAIN replayed.previous

\* C17: once the delta of replay(B, T) has been applied to B and replay
\* has been called on the result with the same T, that second delta is
\* empty.
C17_ReplayConverges ==
  (replayed.pc = "done") => (replayed.again = EmptyFields)

\* The value field k has in a baseline, as flattenEntity shows it.
BaselineHas(previous, k, v) ==
  k \in DOMAIN FlattenEntity(previous) /\ FlattenEntity(previous)[k] = v

\* Some transaction sets name away from its baseline value and the last
\* transaction sets it back; both are constant objects.
SetThenReverted ==
  /\ Len(replayed.txs) >= 2
  /\ \A i \in 1..Len(replayed.txs) : "fields" \in DOMAIN replayed.txs[i]
  /\ BaselineHas(replayed.previous, "name",
                 replayed.txs[Len(replayed.txs)].fields.name)
  /\ \E i \in 1..(Len(replayed.txs) - 1) :
       ~BaselineHas(replayed.previous, "name", replayed.txs[i].fields.name)

\* C18: when a transaction sets a field and a later one sets it back to
\* the value it has in the baseline, the delta does not contain the field.
C18_RevertedFieldElided ==
  (Returned /\ SetThenReverted) => ("name" \notin DOMAIN replayed.fields)

\* The working snapshot after the first n transactions, each evaluated
\* against the snapshot its predecessors left.
RECURSIVE Snapshot(_, _, _)
Snapshot(previous, txs, n) ==
  IF n = 0 THEN FlattenEntity(previous)
  ELSE LET before == Snapshot(previous, txs, n - 1)
           proposed == TxApply(txs[n], before)
       IN [k \in DOMAIN before \cup DOMAIN proposed |->
             IF k \in DOMAIN proposed THEN proposed[k] ELSE before[k]]

\* C20: the delta replay returns is exactly the fields whose value in the
\* final snapshot (transactions applied in order, each on the snapshot of
\* its predecessors) differs from their value in the baseline.
C20_DeltaIsNetChange ==
  Returned =>
    (LET final == Snapshot(replayed.previous, replayed.txs, Len(replayed.txs))
         differing == {k \in DOMAIN final :
                         ~BaselineHas(replayed.previous, k, final[k])}
     IN replayed.fields = [k \in differing |-> final[k]])

\* The 31-multiplier string hash, h := 31 * h + c from 0, computed exactly.
RECURSIVE Hash31(_)
Hash31(str) ==
  IF str = <<>> THEN Num(0, 0)
  ELSE LET h == Hash31(SubSeq(str, 1, Len(str) - 1))
       IN Num(h.hi * 31, h.lo * 31 + str[Len(str)])

\* The element of arr at index |Hash31(str)| mod length(arr).
ElementBy31(arr, str) ==
  arr[(((Hash31(str).hi % Len(arr)) * (Limb % Len(arr)) + Hash31(str).lo)
         % Len(arr)) + 1]

\* 32 * h stays below 2^31 for every running hash h of the string, so no
\* shift wraps.
NoShiftWraps(str) ==
  \A k \in 0..(Len(str) - 1) : Hash31(SubSeq(str, 1, k)).hi * 64 < Limb

\* C19 as stated: every call returns the element at index
\* |hash(str)| mod length(arr) of the 31-multiplier string hash.
C19_PickedBy31Hash ==
  \A i \in 1..Len(picked.out) :
    picked.out[i] = ElementBy31(picked.arr, picked.str)

\* C19 amended: every call returns an element of arr, the same element for
\* the same string, and it is the element at the 31-multiplier hash's index
\* whenever no shift of the running hash wraps to 32 bits.
C19_PickedByWrappingHash ==
  \A i \in 1..Len(picked.out) :
    /\ \E j \in 1..Len(picked.arr) : picked.out[i] = picked.arr[j]
    /\ picked.out[i] = picked.out[1]
    /\ NoShiftWraps(picked.str) =>
         (picked.out[i] = ElementBy31(picked.arr, picked.str))

\* C19 witness: a picker over six elements was called twice with a string
\* of several characters whose hash needs no wrapping.
C19_Witness ==
  /\ Len(picked.out) = MaxPicks
  /\ Len(picked.arr) > 3
  /\ Len(picked.str) > 3
  /\ NoShiftWraps(picked.str)

\* C21: a commit task whose predecessor in the queue resolved (a load or a
\* commit, its remote sync having returned data or not) finds a defined
\* record as its baseline: it rejects neither in its replay nor in its
\* merge into the baseline.
C21_CommitHasBaseline ==
  \A r \in Revs :
    \A i \in 1..Len(tasks[r]) :
      (tasks[r][i].kind = "commit" /\ (i = 1 \/ tasks[r][i - 1].pc = "done")) =>
        ~(tasks[r][i].pc = "failed" /\ tasks[r][i].why \in {"replay", "update"})

\* The dependents a commit task awaited that returned revision identifiers
\* for the entity with this id.
Returning(t, id) ==
  {w \in Awaited(t) :
     DepTask(w).val # NoRec /\ DepTask(w).val.rid # 0 /\ DepTask(w).val.id = id}

\* C22: in the entity a commit sends after fanning out to several
\* dependents, each element of the relationship list whose dependent
\* returned revision identifiers carries them, and every other element is
\* the one replay produced.
C22_EachDependentSpliced ==
  \A r \in Revs : \A i \in CommitTasks(r) :
    (Len(tasks[r][i].waits) >= 2 /\ tasks[r][i].final # NoRec) =>
      (\A k \in 1..Len(tasks[r][i].fields.rel.ids) :
         LET orig == tasks[r][i].fields.rel.ids[k]
             sent == tasks[r][i].final.relationships.rel.ids[k]
             from == Returning(tasks[r][i], orig.id)
         IN IF from = {} THEN sent = orig
            ELSE \E w \in from : sent = AddMetaData(orig, DepTask(w).val.rid))

\* C23: once the retry subscription of an entity's sync has delivered its
\* late data, the record is in the local cache and the sync listener was
\* notified, as after an original sync response; once a collection's has,
\* every late record is a member.
C23_LateDataMergedAlike ==
  /\ \A r \in Revs : \A i \in 1..Len(tasks[r]) :
       (tasks[r][i].repeat = "delivered") =>
         ( /\ cache[revId[r]] = remote[revId[r]]
           /\ (listeners[r] # "none") => (tasks[r][i].heard > 0) )
  /\ (linked.repeat = "delivered") =>
       (\A id \in linked.filter :
          (remote[id] # NoRec) =>
            (\E k \in 1..Len(linked.members) : revId[linked.members[k]] = id))

\* Every pending edit of revision r shows in its live state.
EditsShow(r) == Replay(state[r], transactions[r]) = EmptyFields

\* A step that completes a merge of data arrived for the collection: its
\* remote sync answered, or its retry subscription delivered late results.
MergeCompleted ==
  \/ linked.pc = "syncing" /\ linked'.pc = "done"
  \/ linked.repeat = "subscribed" /\ linked'.repeat = "delivered"

\* C24: whenever data that arrived for a collection has been merged (the
\* sync response, or late retry results), the live state of every member
\* shows the member's pending transactions re-applied.
C24_MemberEditsKept ==
  [][MergeCompleted =>
       (\A r \in Revs :
          (\E k \in 1..Len(linked'.members) : linked'.members[k] = r) =>
            EditsShow(r)')]_vars

\* The local counterparts, before the call, of the logs in the answer that
\* had changes not yet pushed to the server.
Unpushed ==
  {i \in 1..Len(logStore.before) :
     /\ ~logStore.before[i].wasPushedToServer
     /\ \E k \in 1..Len(logStore.res) : logStore.res[k].id = logStore.before[i].id}

\* C25 as stated: after getServerLogs has processed an answer, every local
\* log that had unpushed changes and a counterpart in the answer is as it
\* was.
C25_UnpushedNeverOverwritten ==
  (logStore.gets > 0) =>
    (\A i \in Unpushed : logStore.logs[i] = logStore.before[i])

\* The value the newest uncommitted transaction of r set for its name.
Revised(r) == transactions[r][Len(transactions[r])].fields.name

\* A step of one of r's commits: the task starts, or one of its cache
\* writes, dependent commits or remote syncs answers.
CommitStep(r) ==
  \E i \in 1..Len(tasks[r]) :
    /\ tasks[r][i].kind = "commit"
    /\ i <= Len(tasks'[r])
    /\ tasks'[r][i].pc # tasks[r][i].pc

\* C26 as stated: a name revised after commit drained the log (the commit
\* is pending or in flight) and shown in the live state is still shown
\* after every step of that commit.
C26_RevisedValueKept ==
  [][\A r \in Revs :
       (/\ CommitStep(r)
        /\ transactions[r] # <<>>
        /\ transactions'[r] = transactions[r]
        /\ "name" \in DOMAIN state[r]
        /\ state[r].name = Revised(r))
       => (state'[r].name = Revised(r))]_vars

\* The collection's members that drop(collectionReference, id) has no
\* reason to touch: those whose id is not id.
Others(id) == {linked.members[k] : k \in {j \in 1..Len(linked.members) :
                                            revId[linked.members[j]] # id}}

\* C27 as stated: a call of drop leaves in the collection every member
\* whose id is not the id it was given.
C27_DropOnlyTheMember ==
  [][\A id \in Ids :
       DropCall(id) =>
         (\A r \in Others(id) :
            \E j \in 1..Len(linked'.members) : linked'.members[j] = r)]_vars

\* C28 as stated: the sync answer of a load sequence or of a commit calls
\* the handler registered for the entity's sync event once, never more
\* (heard stays 0 when no handler is registered or no value came back).
C28_SyncHandlerCalledOnce ==
  \A r \in Revs : \A i \in 1..Len(tasks[r]) :
    (tasks[r][i].kind \in {"load", "commit"}) => (tasks[r][i].heard <= 1)

\* The revisions a dependency edge of s points at, and those reached from
\* a set of revisions along at most n edges.
EdgeTo(s) == {deps[s].edges[k].ref : k \in 1..Len(deps[s].edges)} \cap Revs
RECURSIVE ReachIn(_, _)
ReachIn(S, n) ==
  IF n = 0 THEN S ELSE ReachIn(S \cup UNION {EdgeTo(s) : s \in S}, n - 1)
Acyclic == \A r \in Revs : r \notin ReachIn(EdgeTo(r), MaxRev)

\* Every commit pushed on a queue so far has settled.
CommitsSettled ==
  \A r \in Revs : \A i \in 1..Len(tasks[r]) :
    (tasks[r][i].kind = "commit") => Settled(tasks[r][i])

\* C29: the dependency edges never form a cycle, and with every cache
\* write and remote sync answering in the end, every commit pushed on a
\* queue settles: from some point on no commit is left unsettled.
C29_AcyclicAndCommitsSettle == []Acyclic /\ <>[]CommitsSettled

\* A commit fanned out to a dependent the link recorded, awaited its
\* commit and ended.
C29_Witness ==
  \E r \in Revs : \E i \in 1..Len(tasks[r]) :
    /\ tasks[r][i].kind = "commit"
    /\ tasks[r][i].waits # <<>>
    /\ tasks[r][i].pc = "done"
    /\ EdgeTo(r) # {}

====
